---- MODULE Spec2Model ----
(***************************************************************************)
(* Mock-bid settlement and ranking engine of auctioncar_backend.           *)
(*                                                                         *)
(*   AuctionResultService  (auctions/services/auction-result.service.ts)   *)
(*   AuctionRankingService (unnamed/part_019)                              *)
(*   MockBidsService       (mock-bids/dto/create-mock-bid.dto.ts)          *)
(*                                                                         *)
(* The database tables are the state.  A MockBid row is identified by its  *)
(* unique key <<userId, auctionNo, auction_sale_date>> (rows are never     *)
(* deleted, so the key and the synthetic id are in bijection).             *)
(* Dates are integer timestamps with SlotsPerDay instants per local day.   *)
(***************************************************************************)
EXTENDS Integers, Sequences, FiniteSets, TLC

\* ---------------------------------------------------------------- bounds
MaxCalls == 4           \* requests served
MaxDate == 2            \* latest timestamp
MaxInFlight == 2        \* outcome submissions being handled at once
MaxParticipants == 10   \* bidders of one auction in SpecPool

\* ------------------------------------------------------- representation
\* SQL NULL / JS null or undefined in a nullable integer or date column
NULL == -1000
\* new Date(str) of a string that does not parse (getTime() is NaN)
InvalidDate == -2000
\* SQL NULL in a nullable text column
NullStr == "NULL"
SlotsPerDay == 2

\* outcome and status labels (romanised)
Maegak == "maegak"              \* 매각  sold
Nakchal == "nakchal"            \* 낙찰  awarded
Jeongji == "jeongji"            \* 정지  suspended
Chwiso == "chwiso"              \* 취소  cancelled
Yuchal == "yuchal"              \* 유찰  unsold
Byeongyeong == "byeongyeong"    \* 변경  a label no branch of the code names
Jinhaeng == "jinhaeng"          \* 진행  catalog status of an open auction
SangtaeHwaginPiryo == "sangtae-hwagin-piryo"   \* 상태확인필요

Users == {1, 2, 3}
Auctions == {1, 2}
Dates == 0..MaxDate
BidAmounts == {100, 110, 111}
SalePrices == {100, 101}
Outcomes == {Maegak, Nakchal, Jeongji, Chwiso, Yuchal, Byeongyeong, NullStr}
Faults == {"none", "query", "settle"}


VARIABLES
    auctionBaseInfo,    \* catalog: auction_no -> [sale_date, status, min_bid_price]
    auctionResult,      \* auction_no -> [sale_date, sale_price, auction_outcome]
    mockBid,            \* bid id -> row
    user,               \* user id -> [points, experiencePoints]
    pointTransaction,   \* append-only ledger
    mockBidPointsRefundOnCancel,    \* configuration read by the constructor
    mockBidXpGrantOnCancel,
    today,              \* local calendar day of the server clock
    inflight,           \* outcome submissions whose handler has not finished
    nCalls,             \* number of requests served
    mockBidTable,       \* MockBid rows in insertion order, as the steps of
                        \* concurrent createMockBid transactions see them
    last                \* the handler step that produced this state

vars == <<auctionBaseInfo, auctionResult, mockBid, user, pointTransaction,
          mockBidPointsRefundOnCancel, mockBidXpGrantOnCancel, today,
          inflight, nCalls, mockBidTable, last>>

\* ---------------------------------------------------------------- dates
\* new Date(d.getFullYear(), d.getMonth(), d.getDate())
StartOfDay(d) == (d \div SlotsPerDay) * SlotsPerDay
\* new Date(d.getFullYear(), d.getMonth(), d.getDate() + 1)
StartOfNextDay(d) == StartOfDay(d) + SlotsPerDay
\* Date.prototype.toDateString(): the calendar day
ToDateString(d) == d \div SlotsPerDay

IdUser(id) == id[1]
IdAuction(id) == id[2]
IdSaleDate(id) == id[3]

\* the order in which findMany returns rows (no orderBy): taken as id order
IdLess(x, y) ==
    \/ x[1] < y[1]
    \/ x[1] = y[1] /\ x[2] < y[2]
    \/ x[1] = y[1] /\ x[2] = y[2] /\ x[3] < y[3]

\* ------------------------------------------------- AuctionRankingService
\* a query that returns the open bids of one sale date of the auction only,
\* the earliest; C29 does not hold of it
FetchUnprocessedOfOneDate(auctionNo, bids, users) ==
    LET open == { i \in DOMAIN bids : IdAuction(i) = auctionNo /\ ~bids[i].isProcessed }
    IN { [id |-> id, userId |-> IdUser(id), bidAmount |-> bids[id].bidAmount,
          userPoints |-> users[IdUser(id)].points] :
         id \in { i \in open : \A j \in open : IdSaleDate(i) <= IdSaleDate(j) } }

\* a query without the isProcessed filter: settled bids are fetched again,
\* C30 does not hold of it
FetchWhateverProcessed(auctionNo, bids, users) ==
    { [id |-> id, userId |-> IdUser(id), bidAmount |-> bids[id].bidAmount,
       userPoints |-> users[IdUser(id)].points] :
      id \in { i \in DOMAIN bids : IdAuction(i) = auctionNo } }

\* findMany({auctionNo, isProcessed: false}, include user): a snapshot of the
\* rows and of their users at the time of the query
FetchUnprocessed(auctionNo, bids, users) ==
    { [id |-> id, userId |-> IdUser(id), bidAmount |-> bids[id].bidAmount,
       userPoints |-> users[IdUser(id)].points] :
      id \in { i \in DOMAIN bids : IdAuction(i) = auctionNo /\ ~bids[i].isProcessed } }

\* a query that takes the open bids of every sale date of the auction; C15
\* does not hold of it
FetchUnprocessedOnAnyDate(auctionNo, auctionSaleDate, bids, users) ==
    { [id |-> id, userId |-> IdUser(id), bidAmount |-> bids[id].bidAmount,
       userPoints |-> users[IdUser(id)].points] :
      id \in { i \in DOMAIN bids : IdAuction(i) = auctionNo /\ ~bids[i].isProcessed } }

\* findMany({auctionNo, auction_sale_date in [start, end), isProcessed: false})
FetchUnprocessedOn(auctionNo, auctionSaleDate, bids, users) ==
    { [id |-> id, userId |-> IdUser(id), bidAmount |-> bids[id].bidAmount,
       userPoints |-> users[IdUser(id)].points] :
      id \in { i \in DOMAIN bids :
                 /\ IdAuction(i) = auctionNo
                 /\ IdSaleDate(i) >= StartOfDay(auctionSaleDate)
                 /\ IdSaleDate(i) < StartOfNextDay(auctionSaleDate)
                 /\ ~bids[i].isProcessed } }

\* a band that leaves out its upper edge; C7 does not hold of it
IsEligibleBelowEdge(bidAmount, actualSalePrice) ==
    bidAmount >= actualSalePrice /\ bidAmount * 10 < actualSalePrice * 11

\* bidAmount >= actualSalePrice && bidAmount <= actualSalePrice * 1.10
\* (the double product P * 1.1 lies within 1e-15 * P of 11P/10, and integer
\*  amounts differ from 11P/10 by 0 or at least 1/10, so for amounts below
\*  2^49 the double comparison and the rational one agree)
IsEligible(bidAmount, actualSalePrice) ==
    bidAmount >= actualSalePrice /\ bidAmount * 10 <= actualSalePrice * 11

EligibleBids(mockBids, actualSalePrice) ==
    { b \in mockBids : IsEligible(b.bidAmount, actualSalePrice) }

NonEligibleBidIds(mockBids, actualSalePrice) ==
    { b.id : b \in { x \in mockBids :
                       ~(\E eb \in EligibleBids(mockBids, actualSalePrice) : eb.id = x.id) } }

\* eligibleBids.sort((a, b) => Number(a.bidAmount) - Number(b.bidAmount)),
\* a stable sort of the fetched order
RECURSIVE SortByAmount(_)
SortByAmount(bids) ==
    IF bids = {} THEN <<>>
    ELSE LET first == CHOOSE b \in bids : \A o \in bids :
                          \/ b.bidAmount < o.bidAmount
                          \/ b.bidAmount = o.bidAmount /\ (b.id = o.id \/ IdLess(b.id, o.id))
         IN <<first>> \o SortByAmount(bids \ {first})

\* dense ranking, where the rank after a tie does not skip; C8 does not hold
\* of it
RECURSIVE AssignRanksDense(_, _, _, _)
AssignRanksDense(sorted, index, currentRank, previousBidAmount) ==
    IF index >= Len(sorted) THEN <<>>
    ELSE LET bid == sorted[index + 1]
             rank == IF bid.bidAmount # previousBidAmount THEN currentRank + 1
                     ELSE currentRank
         IN <<[id |-> bid.id, userId |-> bid.userId, bidAmount |-> bid.bidAmount,
               userPoints |-> bid.userPoints, assignedRank |-> rank]>>
            \o AssignRanksDense(sorted, index + 1, rank, bid.bidAmount)

\* the map callback over the sorted list with its captured currentRank and
\* previousBidAmount; index is 0-based as in the code
RECURSIVE AssignRanks(_, _, _, _)
AssignRanks(sorted, index, currentRank, previousBidAmount) ==
    IF index >= Len(sorted) THEN <<>>
    ELSE LET bid == sorted[index + 1]
             rank == IF bid.bidAmount # previousBidAmount THEN index + 1 ELSE currentRank
         IN <<[id |-> bid.id, userId |-> bid.userId, bidAmount |-> bid.bidAmount,
               userPoints |-> bid.userPoints, assignedRank |-> rank]>>
            \o AssignRanks(sorted, index + 1, rank, bid.bidAmount)

RankedBids(mockBids, actualSalePrice) ==
    AssignRanks(SortByAmount(EligibleBids(mockBids, actualSalePrice)), 0, 0, -1)

\* every ranked bid taken as a winner; C9 does not hold of it
WinningMockBidsAllRanked(mockBids, actualSalePrice) ==
    RankedBids(mockBids, actualSalePrice)

\* rankedBids.filter(b => b.assignedRank === 1)
WinningMockBids(mockBids, actualSalePrice) ==
    SelectSeq(RankedBids(mockBids, actualSalePrice), LAMBDA b : b.assignedRank = 1)

\* new Set(mockBids.map(mb => mb.userId)).size
TotalParticipants(mockBids) == Cardinality({ b.userId : b \in mockBids })

\* a quotient that is cut off instead of rounded; C11 does not hold of it
XpPerWinnerTruncated(totalParticipants, numberOfWinners) ==
    IF numberOfWinners > 0 /\ totalParticipants > 0
    THEN totalParticipants \div numberOfWinners
    ELSE 0

\* Math.round(totalParticipants / numberOfWinners): round half up
XpPerWinner(totalParticipants, numberOfWinners) ==
    IF numberOfWinners > 0 /\ totalParticipants > 0
    THEN (2 * totalParticipants + numberOfWinners) \div (2 * numberOfWinners)
    ELSE 0

\* a pool that keeps the whole fee of the non-winners; C10 does not hold of it
PointsPerWinnerWholePool(totalParticipants, numberOfWinners, mockBidCost) ==
    IF numberOfWinners > 0 /\ totalParticipants > 0
    THEN (mockBidCost * totalParticipants) \div numberOfWinners
    ELSE 0

\* Math.floor((mockBidCost * W + (T - W) * mockBidCost * 0.8) / W); the
\* product with 0.8 is taken in fifths so that the quotient is exact
PointsPerWinner(totalParticipants, numberOfWinners, mockBidCost) ==
    IF numberOfWinners > 0 /\ totalParticipants > 0
    THEN LET nonWinnersCount == totalParticipants - numberOfWinners
             totalPoolForWinners5 == 5 * mockBidCost * numberOfWinners
             poolFromNonWinners5 == nonWinnersCount * mockBidCost * 4
         IN (totalPoolForWinners5 + poolFromNonWinners5) \div (5 * numberOfWinners)
    ELSE 0


\* number of entries of a list whose bid belongs to user u
CountOfUser(list, u) == Cardinality({ i \in 1..Len(list) : list[i].userId = u })

\* rankedBids entry of a bid id
RankedEntry(ranked, id) == ranked[CHOOSE i \in 1..Len(ranked) : ranked[i].id = id]

\* tx.pointTransaction.create for one winner; balanceAfter is computed from
\* the user row read by the bid query
WinnerRewardEntry(winnerBid, pointsPerWinner) ==
    [userId |-> winnerBid.userId, type |-> "MOCK_BID_WINNER_REWARD",
     amount |-> pointsPerWinner,
     balanceAfter |-> winnerBid.userPoints + pointsPerWinner,
     relatedId |-> winnerBid.id]

\* the $transaction of processAuctionRankings: winners, other ranked bids,
\* non-eligible bids.  credits is a history field: the number of times the
\* engine credited the bid's user for this row.
RankingsTransaction(mockBids, actualSalePrice, bids, users, ledger, mockBidCost) ==
    LET rankedBids == RankedBids(mockBids, actualSalePrice)
        winningMockBids == WinningMockBids(mockBids, actualSalePrice)
        numberOfWinners == Len(winningMockBids)
        totalParticipants == TotalParticipants(mockBids)
        xpPerWinner == XpPerWinner(totalParticipants, numberOfWinners)
        pointsPerWinner == PointsPerWinner(totalParticipants, numberOfWinners, mockBidCost)
        rankedIds == { rankedBids[i].id : i \in 1..Len(rankedBids) }
        nonEligibleBidIds == NonEligibleBidIds(mockBids, actualSalePrice)
    IN [mockBid |->
          [id \in DOMAIN bids |->
             IF id \in rankedIds
             THEN IF RankedEntry(rankedBids, id).assignedRank = 1
                  THEN [bids[id] EXCEPT !.isProcessed = TRUE, !.rank = 1,
                                        !.earnedExperiencePoints = xpPerWinner,
                                        !.credits = @ + 1]
                  ELSE [bids[id] EXCEPT !.isProcessed = TRUE,
                                        !.rank = RankedEntry(rankedBids, id).assignedRank,
                                        !.earnedExperiencePoints = 0]
             ELSE IF id \in nonEligibleBidIds
             THEN [bids[id] EXCEPT !.isProcessed = TRUE, !.rank = -1,
                                   !.earnedExperiencePoints = 0]
             ELSE bids[id]],
        user |->
          [u \in DOMAIN users |->
             [points |-> users[u].points +
                           (IF pointsPerWinner > 0
                            THEN pointsPerWinner * CountOfUser(winningMockBids, u)
                            ELSE 0),
              experiencePoints |-> users[u].experiencePoints +
                                     xpPerWinner * CountOfUser(winningMockBids, u)]],
        pointTransaction |->
          IF pointsPerWinner > 0
          THEN ledger \o [i \in 1..numberOfWinners |->
                            WinnerRewardEntry(winningMockBids[i], pointsPerWinner)]
          ELSE ledger]

\* updateMany({auctionNo}, {isProcessed: true, rank: -1}) of the branch
\* taken when the bid query returns nothing
MarkAllOfAuction(auctionNo, bids) ==
    [id \in DOMAIN bids |->
       IF IdAuction(id) = auctionNo
       THEN [bids[id] EXCEPT !.isProcessed = TRUE, !.rank = -1]
       ELSE bids[id]]

\* an update that leaves earnedExperiencePoints as it was; C12 does not hold
\* of it
MarkNotRankedKeepingXp(ids, bids) ==
    [id \in DOMAIN bids |->
       IF id \in ids
       THEN [bids[id] EXCEPT !.isProcessed = TRUE, !.rank = -1]
       ELSE bids[id]]

\* updateMany({id in ids}, {isProcessed: true, rank: -1, earnedExperiencePoints: 0})
MarkNotRanked(ids, bids) ==
    [id \in DOMAIN bids |->
       IF id \in ids
       THEN [bids[id] EXCEPT !.isProcessed = TRUE, !.rank = -1,
                             !.earnedExperiencePoints = 0]
       ELSE bids[id]]

\* the write phase of processAuctionRankings on the rows mockBids it fetched
ProcessAuctionRankingsWrite(auctionNo, actualSalePrice, mockBids, bids, users, ledger, mockBidCost) ==
    IF mockBids = {}
    THEN [mockBid |-> MarkAllOfAuction(auctionNo, bids), user |-> users,
          pointTransaction |-> ledger]
    ELSE IF EligibleBids(mockBids, actualSalePrice) = {}
    THEN [mockBid |-> MarkNotRanked({ b.id : b \in mockBids }, bids), user |-> users,
          pointTransaction |-> ledger]
    ELSE RankingsTransaction(mockBids, actualSalePrice, bids, users, ledger, mockBidCost)

\* a pass-through that hands the entry fee back; C16 does not hold of it
ProcessUnsoldWithRefund(mockBidsToProcess, bids, users, ledger) ==
    [mockBid |-> MarkNotRanked({ b.id : b \in mockBidsToProcess }, bids),
     user |-> [u \in DOMAIN users |->
                 [users[u] EXCEPT !.points =
                    @ + 30 * Cardinality({ b \in mockBidsToProcess :
                                                         b.userId = u })]],
     pointTransaction |-> ledger]

\* the write phase of processUnsoldOrOtherOutcomes
ProcessUnsoldOrOtherOutcomesWrite(mockBidsToProcess, bids, users, ledger) ==
    [mockBid |-> MarkNotRanked({ b.id : b \in mockBidsToProcess }, bids),
     user |-> users, pointTransaction |-> ledger]

\* a cancellation that refunds the points but grants the experience to the
\* row only; C14 does not hold of it
ProcessCancellationWithoutUserXp(mockBidsToProcess, bids, users, ledger, pointsToRefund, experiencePointsToGrant) ==
    LET ids == { b.id : b \in mockBidsToProcess }
        n(u) == Cardinality({ b \in mockBidsToProcess : b.userId = u })
    IN [mockBid |->
          [id \in DOMAIN bids |->
             IF id \in ids
             THEN [bids[id] EXCEPT !.isProcessed = TRUE, !.rank = -1,
                                   !.earnedExperiencePoints = experiencePointsToGrant,
                                   !.credits = @ + 1]
             ELSE bids[id]],
        user |->
          [u \in DOMAIN users |->
             [points |-> users[u].points + pointsToRefund * n(u),
              experiencePoints |-> users[u].experiencePoints]],
        pointTransaction |-> ledger]

\* the $transaction of processCancellationOrSuspensionOutcomes
ProcessCancellationOrSuspensionOutcomesWrite(mockBidsToProcess, bids, users, ledger, pointsToRefund, experiencePointsToGrant) ==
    LET ids == { b.id : b \in mockBidsToProcess }
        n(u) == Cardinality({ b \in mockBidsToProcess : b.userId = u })
    IN [mockBid |->
          [id \in DOMAIN bids |->
             IF id \in ids
             THEN [bids[id] EXCEPT !.isProcessed = TRUE, !.rank = -1,
                                   !.earnedExperiencePoints = experiencePointsToGrant,
                                   !.credits = @ + 1]
             ELSE bids[id]],
        user |->
          [u \in DOMAIN users |->
             [points |-> users[u].points + pointsToRefund * n(u),
              experiencePoints |-> users[u].experiencePoints + experiencePointsToGrant * n(u)]],
        pointTransaction |-> ledger]

\* ---------------------------------------------------- AuctionResultService
\* a receiver that overwrites whatever is stored; C4 does not hold of it
ShouldOverwriteAlways(existingSaleDate, newSaleDate) == TRUE

\* a receiver that overwrites only with a strictly later sale date, so that
\* a replay of the stored payload is refused; C28 does not hold of it
ShouldOverwriteOnlyLater(existingSaleDate, newSaleDate) ==
    \/ existingSaleDate = NULL
    \/ newSaleDate # InvalidDate /\ newSaleDate > existingSaleDate

\* !existingSaleDate || newSaleDate >= existingSaleDate (a comparison with an
\* invalid date is false)
ShouldOverwrite(existingSaleDate, newSaleDate) ==
    \/ existingSaleDate = NULL
    \/ newSaleDate # InvalidDate /\ newSaleDate >= existingSaleDate

\* prepareDatabaseData, restricted to the columns the engine reads
PrepareDatabaseData(dto, saleDateForDb) ==
    [sale_date |-> saleDateForDb, sale_price |-> dto.sale_price,
     auction_outcome |-> dto.auction_outcome]

\* updateAuctionBaseInfoStatus
UpdateAuctionBaseInfoStatus(catalog, result, auctionNo) ==
    IF result.sale_price # NULL /\ auctionNo \in DOMAIN catalog
    THEN [catalog EXCEPT ![auctionNo].status =
            IF result.auction_outcome = Maegak \/ result.auction_outcome = Nakchal
            THEN Maegak
            ELSE IF result.auction_outcome = NullStr THEN SangtaeHwaginPiryo
            ELSE result.auction_outcome]
    ELSE catalog

\* a dispatch that knows only the label sold; C6 does not hold of it
PostResultPolicySoldOnly(auctionOutcome, salePrice) ==
    IF auctionOutcome = Maegak
    THEN IF salePrice # NULL THEN "processAuctionRankings"
         ELSE "processUnsoldOrOtherOutcomes"
    ELSE IF auctionOutcome # NullStr /\ auctionOutcome \in {Jeongji, Chwiso}
    THEN "processCancellationOrSuspensionOutcomes"
    ELSE "processUnsoldOrOtherOutcomes"

\* the branch of handlePostResultOperations that is taken
PostResultPolicy(auctionOutcome, salePrice) ==
    IF auctionOutcome # NullStr /\ auctionOutcome \in {Maegak, Nakchal}
    THEN IF salePrice # NULL THEN "processAuctionRankings"
         ELSE "processUnsoldOrOtherOutcomes"
    ELSE IF auctionOutcome # NullStr /\ auctionOutcome \in {Jeongji, Chwiso}
    THEN "processCancellationOrSuspensionOutcomes"
    ELSE "processUnsoldOrOtherOutcomes"

\* TRUE when handlePostResultOperations awaits the policy it calls, so that
\* updateAuctionResult returns only after the policy has finished; the
\* ranking is started with .then/.catch and not awaited
PolicyAwaited(policy) == policy # "processAuctionRankings"

\* the bid query of the policy
PolicyQuery(policy, auctionNo, saleDate, bids, users) ==
    IF policy = "processAuctionRankings"
    THEN FetchUnprocessed(auctionNo, bids, users)
    ELSE FetchUnprocessedOn(auctionNo, saleDate, bids, users)

\* TRUE when the policy issues a write after a query that returned fetched
PolicyWrites(policy, fetched) ==
    policy = "processAuctionRankings" \/ fetched # {}

\* the write phase of the policy
PolicyWrite(policy, auctionNo, salePrice, fetched, bids, users, ledger, refund, xpGrant) ==
    IF policy = "processAuctionRankings"
    THEN ProcessAuctionRankingsWrite(auctionNo, salePrice, fetched, bids, users, ledger, refund)
    ELSE IF policy = "processCancellationOrSuspensionOutcomes"
    THEN ProcessCancellationOrSuspensionOutcomesWrite(fetched, bids, users, ledger, refund, xpGrant)
    ELSE ProcessUnsoldOrOtherOutcomesWrite(fetched, bids, users, ledger)


\* the first k rows of a fetched list, in the order the loop visits them
FirstFetched(mockBids, k) ==
    { b \in mockBids : Cardinality({ o \in mockBids : IdLess(o.id, b.id) }) < k }

\* the writes the callback of the ranking $transaction can have issued when
\* it throws: none, the winner loop, the winner and ranked loops, or all
InterruptedRankings(mockBids, actualSalePrice, bids, users, ledger, mockBidCost) ==
    LET all == RankingsTransaction(mockBids, actualSalePrice, bids, users, ledger, mockBidCost)
        rankedBids == RankedBids(mockBids, actualSalePrice)
        winnerIds == { rankedBids[i].id : i \in { j \in 1..Len(rankedBids) :
                                                    rankedBids[j].assignedRank = 1 } }
        rankedIds == { rankedBids[i].id : i \in 1..Len(rankedBids) }
        upTo(ids) == [all EXCEPT !.mockBid =
                        [id \in DOMAIN bids |-> IF id \in ids THEN all.mockBid[id]
                                                ELSE bids[id]]]
    IN { [mockBid |-> bids, user |-> users, pointTransaction |-> ledger],
         upTo(winnerIds), upTo(rankedIds), all }

\* the writes the callback of the cancellation $transaction can have issued
\* when it throws: the first k bids and their users, and possibly the row of
\* the next bid without its user
InterruptedCancellation(mockBidsToProcess, bids, users, ledger, pointsToRefund, experiencePointsToGrant) ==
    LET done(k) == ProcessCancellationOrSuspensionOutcomesWrite(
                     FirstFetched(mockBidsToProcess, k), bids, users, ledger,
                     pointsToRefund, experiencePointsToGrant)
        n == Cardinality(mockBidsToProcess)
    IN { done(k) : k \in 0..n }
         \cup { [done(k) EXCEPT !.mockBid = done(k + 1).mockBid] : k \in 0..(n - 1) }

\* the writes issued by the policy when its write phase throws
InterruptedWrites(policy, auctionNo, salePrice, fetched, bids, users, ledger, refund, xpGrant) ==
    IF policy = "processAuctionRankings" /\ EligibleBids(fetched, salePrice) # {}
    THEN InterruptedRankings(fetched, salePrice, bids, users, ledger, refund)
    ELSE IF policy = "processCancellationOrSuspensionOutcomes"
    THEN InterruptedCancellation(fetched, bids, users, ledger, refund, xpGrant)
    ELSE \* a single updateMany
         { [mockBid |-> bids, user |-> users, pointTransaction |-> ledger] }

\* a transaction that keeps what it wrote before it threw; C13 does not hold
\* of it
TransactionKeepingWrites(before, written) == written

\* prisma.$transaction(callback) whose callback threw: every write is undone
TransactionRolledBack(before, written) == before

\* --------------------------------------------------------- MockBidsService
Jongryo == "jongryo"                        \* 종료
Gigak == "gigak"                            \* 기각
MaegakWanryo == "maegak-wanryo"             \* 매각완료
YuchalCheoriWanryo == "yuchal-cheori-wanryo" \* 유찰처리완료
NonBiddableStatus == {Jeongji, Jongryo, Chwiso, Gigak, MaegakWanryo, YuchalCheoriWanryo}
PointsToDeduct == 30

\* the checks without the one on the minimum bid price; C20 does not hold
\* of them
CreateMockBidValidationWithoutMinimum(auctionNo, requestedSaleDate, bidAmount, catalog, day) ==
    IF requestedSaleDate = InvalidDate THEN "BadRequest"
    ELSE IF auctionNo \notin DOMAIN catalog THEN "NotFound"
    ELSE IF catalog[auctionNo].sale_date = NULL THEN "BadRequest"
    ELSE IF ToDateString(catalog[auctionNo].sale_date) # ToDateString(requestedSaleDate)
    THEN "BadRequest"
    ELSE IF requestedSaleDate < day * SlotsPerDay THEN "Forbidden"
    ELSE IF catalog[auctionNo].status # NullStr
            /\ catalog[auctionNo].status \in NonBiddableStatus THEN "Forbidden"
    ELSE "ok"

\* the checks of createMockBid that precede its transaction: the exception
\* thrown, or "ok"
CreateMockBidValidation(auctionNo, requestedSaleDate, bidAmount, catalog, day) ==
    IF requestedSaleDate = InvalidDate THEN "BadRequest"
    ELSE IF auctionNo \notin DOMAIN catalog THEN "NotFound"
    ELSE IF catalog[auctionNo].sale_date = NULL THEN "BadRequest"
    ELSE IF ToDateString(catalog[auctionNo].sale_date) # ToDateString(requestedSaleDate)
    THEN "BadRequest"
    ELSE IF requestedSaleDate < day * SlotsPerDay THEN "Forbidden"
    ELSE IF catalog[auctionNo].status # NullStr
            /\ catalog[auctionNo].status \in NonBiddableStatus THEN "Forbidden"
    ELSE IF catalog[auctionNo].min_bid_price # NULL
            /\ bidAmount < catalog[auctionNo].min_bid_price THEN "BadRequest"
    ELSE "ok"

\* a balance check that lets every balance through; C19 does not hold of it
InsufficientPointsNever(currentPoints) == FALSE

\* a balance check that refuses only an empty balance; C36 does not hold of
\* it
InsufficientPointsOnlyIfNone(currentPoints) == currentPoints < 1

\* if (currentPoints < pointsToDeduct)
InsufficientPoints(currentPoints) == currentPoints < PointsToDeduct

\* a submission that never finds its row; C3 does not hold of it
ExistingMockBidNever(id, bids) == FALSE

\* if (existingMockBid): the row read by tx.mockBid.findUnique
ExistingMockBid(id, bids) == id \in DOMAIN bids

\* a resubmission that reopens the row and keeps its rank and experience;
\* C17 does not hold of it
ResubmittedRowKeepingResult(row, bidAmount) ==
    [row EXCEPT !.bidAmount = bidAmount, !.isProcessed = FALSE]

\* tx.mockBid.update of the resubmission branch
ResubmittedRow(row, bidAmount) ==
    [row EXCEPT !.bidAmount = bidAmount, !.isProcessed = FALSE, !.rank = NULL,
                !.earnedExperiencePoints = NULL]

\* tx.mockBid.create of the first-submission branch.  credits is a history
\* field: the number of times the engine credited the user for this row.
CreatedRow(bidAmount) ==
    [bidAmount |-> bidAmount, isProcessed |-> FALSE, rank |-> NULL,
     earnedExperiencePoints |-> NULL, credits |-> 0]

\* ------------------------------------------------------------ call record
NoResult == [sale_date |-> NULL, sale_price |-> NULL, auction_outcome |-> NullStr]

NoCall == [op |-> "none", ret |-> "none", userId |-> 0, auctionNo |-> 0,
           saleDate |-> NULL, bidAmount |-> NULL, outcome |-> NullStr,
           salePrice |-> NULL, fault |-> "none", policy |-> "none",
           fetched |-> {}, committed |-> FALSE, returned |-> NoResult]

\* a call that threw: the arguments are kept only for calls that returned
Rejected(op, ret) == [NoCall EXCEPT !.op = op, !.ret = ret]

OutcomeCall(dto, fault) ==
    [NoCall EXCEPT !.op = "updateAuctionResult", !.auctionNo = dto.auction_no,
                   !.saleDate = dto.sale_date, !.outcome = dto.auction_outcome,
                   !.salePrice = dto.sale_price, !.fault = fault]

\* ----------------------------------------------------------- createMockBid
\* createMockBid(dto, user): validation, then one transaction
CreateMockBid(userId, auctionNo, saleDate, bidAmount) ==
    LET check == CreateMockBidValidation(auctionNo, saleDate, bidAmount,
                                         auctionBaseInfo, today)
        id == <<userId, auctionNo, saleDate>>
        call == [NoCall EXCEPT !.op = "createMockBid", !.userId = userId,
                               !.auctionNo = auctionNo, !.saleDate = saleDate,
                               !.bidAmount = bidAmount]
    IN
    /\ IF check # "ok"
       THEN /\ last' = Rejected("createMockBid", check)
            /\ UNCHANGED <<mockBid, user>>
       ELSE IF ExistingMockBid(id, mockBid)
       THEN /\ mockBid' = (id :> ResubmittedRow(mockBid[id], bidAmount)) @@ mockBid
            /\ last' = [call EXCEPT !.ret = "updated", !.committed = TRUE]
            /\ UNCHANGED user
       ELSE IF InsufficientPoints(user[userId].points)
       THEN \* the ForbiddenException is rethrown by the outer catch as a 500
            /\ last' = Rejected("createMockBid", "InternalServerError")
            /\ UNCHANGED <<mockBid, user>>
       ELSE /\ user' = [user EXCEPT ![userId].points = user[userId].points - PointsToDeduct]
            /\ mockBid' = (id :> CreatedRow(bidAmount)) @@ mockBid
            /\ last' = [call EXCEPT !.ret = "created", !.committed = TRUE]
    /\ nCalls' = nCalls + 1
    /\ UNCHANGED <<mockBidTable, auctionBaseInfo, auctionResult, pointTransaction,
                   mockBidPointsRefundOnCancel, mockBidXpGrantOnCancel, today,
                   inflight>>

\* ----------------------------------------------------- updateAuctionResult
\* updateAuctionResult up to its first branch: what the handler does with
\* the row it read, or the exception it throws
UpdateAuctionResultBranch(dto, results, catalog) ==
    IF dto.sale_date = NULL THEN "BadRequest"
    ELSE IF dto.auction_no \in DOMAIN results
    THEN IF ShouldOverwrite(results[dto.auction_no].sale_date, dto.sale_date)
         THEN "update" ELSE "stale"
    ELSE IF dto.auction_no \notin DOMAIN catalog THEN "BadRequest"
    ELSE "create"

\* updateAuctionResult(dto), every step run to completion before any other
\* request is served; the ranking, which the handler starts without
\* awaiting it, is taken to finish as well.  fault names the database
\* operation of the settlement that fails during the call, if any.
UpdateAuctionResult(dto, fault) ==
    LET branch == UpdateAuctionResultBranch(dto, auctionResult, auctionBaseInfo)
        a == dto.auction_no
        result == PrepareDatabaseData(dto, dto.sale_date)
        policy == PostResultPolicy(result.auction_outcome, result.sale_price)
        fetched == PolicyQuery(policy, a, result.sale_date, mockBid, user)
        written == PolicyWrite(policy, a, result.sale_price, fetched, mockBid, user,
                               pointTransaction, mockBidPointsRefundOnCancel,
                               mockBidXpGrantOnCancel)
        call == OutcomeCall(dto, fault)
    IN
    /\ nCalls' = nCalls + 1
    /\ IF branch = "BadRequest"
       THEN /\ fault = "none"
            /\ last' = Rejected("updateAuctionResult", "BadRequest")
            /\ UNCHANGED <<auctionResult, auctionBaseInfo, mockBid, user, pointTransaction>>
       ELSE IF branch = "stale"
       THEN /\ fault = "none"
            /\ last' = [call EXCEPT !.ret = "stale", !.returned = auctionResult[a]]
            /\ UNCHANGED <<auctionResult, auctionBaseInfo, mockBid, user, pointTransaction>>
       ELSE IF dto.sale_date = InvalidDate
       THEN \* the create is refused by the client library and caught
            /\ fault = "none"
            /\ last' = Rejected("updateAuctionResult", "InternalServerError")
            /\ UNCHANGED <<auctionResult, auctionBaseInfo, mockBid, user, pointTransaction>>
       ELSE /\ auctionResult' = (a :> result) @@ auctionResult
            /\ auctionBaseInfo' = UpdateAuctionBaseInfoStatus(auctionBaseInfo, result, a)
            /\ IF fault = "query"
               THEN \* a rejected findMany is logged by the ranking branch and
                    \* rethrown as a 500 by the awaited branches
                    /\ last' = [call EXCEPT !.policy = policy, !.returned = result,
                                  !.ret = IF policy = "processAuctionRankings"
                                          THEN "stored" ELSE "InternalServerError"]
                    /\ UNCHANGED <<mockBid, user, pointTransaction>>
               ELSE IF ~PolicyWrites(policy, fetched)
               THEN /\ fault = "none"
                    /\ last' = [call EXCEPT !.policy = policy, !.fetched = fetched,
                                            !.ret = "stored", !.returned = result]
                    /\ UNCHANGED <<mockBid, user, pointTransaction>>
               ELSE IF fault = "settle"
               THEN \* the write phase throws; the error is caught and logged
                    /\ \E issued \in InterruptedWrites(policy, a, result.sale_price,
                                          fetched, mockBid, user, pointTransaction,
                                          mockBidPointsRefundOnCancel,
                                          mockBidXpGrantOnCancel) :
                          LET after == TransactionRolledBack(
                                         [mockBid |-> mockBid, user |-> user,
                                          pointTransaction |-> pointTransaction], issued)
                          IN /\ mockBid' = after.mockBid
                             /\ user' = after.user
                             /\ pointTransaction' = after.pointTransaction
                    /\ last' = [call EXCEPT !.policy = policy, !.fetched = fetched,
                                            !.ret = "stored", !.returned = result]
               ELSE /\ mockBid' = written.mockBid
                    /\ user' = written.user
                    /\ pointTransaction' = written.pointTransaction
                    /\ last' = [call EXCEPT !.policy = policy, !.fetched = fetched,
                                            !.ret = "stored", !.committed = TRUE,
                                            !.returned = result]
    /\ UNCHANGED <<mockBidTable, mockBidPointsRefundOnCancel, mockBidXpGrantOnCancel, today, inflight>>

\* ---- the same handler, one awaited database operation per step
FreeSlot == CHOOSE k \in 1..MaxInFlight : k \notin DOMAIN inflight

Remove(f, k) == [x \in DOMAIN f \ {k} |-> f[x]]

\* the request arrives; without a sale_date it is refused at once, otherwise
\* the handler issues findUnique and waits
BeginUpdateAuctionResult(dto) ==
    /\ nCalls' = nCalls + 1
    /\ IF dto.sale_date = NULL
       THEN /\ last' = Rejected("updateAuctionResult", "BadRequest")
            /\ UNCHANGED inflight
       ELSE /\ Cardinality(DOMAIN inflight) < MaxInFlight
            /\ inflight' = (FreeSlot :> [dto |-> dto, pc |-> "findUnique", fetched |-> {},
                                         acknowledged |-> FALSE]) @@ inflight
            /\ last' = [OutcomeCall(dto, "none") EXCEPT !.ret = "pending"]
    /\ UNCHANGED <<mockBidTable, auctionBaseInfo, auctionResult, mockBid, user, pointTransaction,
                   mockBidPointsRefundOnCancel, mockBidXpGrantOnCancel, today>>

\* auctionResult.findUnique (and, when there is no row, auctionBaseInfo
\* .findUnique) returns and the handler takes its branch
ReadExistingResult(k) ==
    LET dto == inflight[k].dto
        branch == UpdateAuctionResultBranch(dto, auctionResult, auctionBaseInfo)
    IN
    /\ inflight[k].pc = "findUnique"
    /\ IF branch = "BadRequest"
       THEN /\ inflight' = Remove(inflight, k)
            /\ last' = Rejected("updateAuctionResult", "BadRequest")
       ELSE IF branch = "stale"
       THEN /\ inflight' = Remove(inflight, k)
            /\ last' = [OutcomeCall(dto, "none") EXCEPT
                          !.ret = "stale", !.returned = auctionResult[dto.auction_no]]
       ELSE /\ inflight' = [inflight EXCEPT ![k].pc = branch]
            /\ last' = [OutcomeCall(dto, "none") EXCEPT !.ret = "pending"]
    /\ UNCHANGED <<mockBidTable, auctionBaseInfo, auctionResult, mockBid, user, pointTransaction,
                   mockBidPointsRefundOnCancel, mockBidXpGrantOnCancel, today, nCalls>>

\* the $transaction that updates or creates the AuctionResult row and the
\* catalog status; handlePostResultOperations then issues the bid query
\* and, when the policy is not awaited, the handler returns the row to its
\* caller (acknowledged) while the policy goes on
WriteResult(k) ==
    LET dto == inflight[k].dto
        a == dto.auction_no
        result == PrepareDatabaseData(dto, dto.sale_date)
    IN
    /\ inflight[k].pc \in {"update", "create"}
    /\ IF dto.sale_date = InvalidDate
          \/ (inflight[k].pc = "create" /\ a \in DOMAIN auctionResult)
       THEN \* refused by the client library, or P2002 on the primary key
            /\ inflight' = Remove(inflight, k)
            /\ last' = Rejected("updateAuctionResult", "InternalServerError")
            /\ UNCHANGED <<auctionResult, auctionBaseInfo>>
       ELSE /\ auctionResult' = (a :> result) @@ auctionResult
            /\ auctionBaseInfo' = UpdateAuctionBaseInfoStatus(auctionBaseInfo, result, a)
            /\ inflight' = [inflight EXCEPT
                              ![k].pc = "findMany",
                              ![k].acknowledged =
                                 ~PolicyAwaited(PostResultPolicy(result.auction_outcome,
                                                                 result.sale_price))]
            /\ last' = [OutcomeCall(dto, "none") EXCEPT
                          !.ret = "pending", !.returned = result,
                          !.policy = PostResultPolicy(result.auction_outcome,
                                                      result.sale_price)]
    /\ UNCHANGED <<mockBidTable, mockBid, user, pointTransaction, mockBidPointsRefundOnCancel,
                   mockBidXpGrantOnCancel, today, nCalls>>

\* mockBid.findMany of the policy returns
QueryBids(k) ==
    LET dto == inflight[k].dto
        result == PrepareDatabaseData(dto, dto.sale_date)
        policy == PostResultPolicy(result.auction_outcome, result.sale_price)
        fetched == PolicyQuery(policy, dto.auction_no, result.sale_date, mockBid, user)
    IN
    /\ inflight[k].pc = "findMany"
    /\ IF PolicyWrites(policy, fetched)
       THEN /\ inflight' = [inflight EXCEPT ![k].pc = "write", ![k].fetched = fetched]
            /\ last' = [OutcomeCall(dto, "none") EXCEPT
                          !.ret = "pending", !.policy = policy, !.fetched = fetched,
                          !.returned = result]
       ELSE /\ inflight' = Remove(inflight, k)
            /\ last' = [OutcomeCall(dto, "none") EXCEPT
                          !.ret = "stored", !.policy = policy, !.returned = result]
    /\ UNCHANGED <<mockBidTable, auctionBaseInfo, auctionResult, mockBid, user, pointTransaction,
                   mockBidPointsRefundOnCancel, mockBidXpGrantOnCancel, today, nCalls>>

\* the policy's $transaction or updateMany on the rows it fetched
SettleBids(k) ==
    LET dto == inflight[k].dto
        result == PrepareDatabaseData(dto, dto.sale_date)
        policy == PostResultPolicy(result.auction_outcome, result.sale_price)
        fetched == inflight[k].fetched
        written == PolicyWrite(policy, dto.auction_no, result.sale_price, fetched,
                               mockBid, user, pointTransaction,
                               mockBidPointsRefundOnCancel, mockBidXpGrantOnCancel)
    IN
    /\ inflight[k].pc = "write"
    /\ mockBid' = written.mockBid
    /\ user' = written.user
    /\ pointTransaction' = written.pointTransaction
    /\ inflight' = Remove(inflight, k)
    /\ last' = [OutcomeCall(dto, "none") EXCEPT
                  !.ret = "stored", !.policy = policy, !.fetched = fetched,
                  !.committed = TRUE, !.returned = result]
    /\ UNCHANGED <<mockBidTable, auctionBaseInfo, auctionResult, mockBidPointsRefundOnCancel,
                   mockBidXpGrantOnCancel, today, nCalls>>

\* ------------------------------------------------------------ environment
\* the server clock reaches the next local day
Tick ==
    /\ (today + 1) * SlotsPerDay <= MaxDate
    /\ today' = today + 1
    /\ last' = [NoCall EXCEPT !.op = "tick"]
    /\ UNCHANGED <<mockBidTable, auctionBaseInfo, auctionResult, mockBid, user, pointTransaction,
                   mockBidPointsRefundOnCancel, mockBidXpGrantOnCancel, inflight, nCalls>>

\* the crawler, which owns the AuctionBaseInfo table, moves an auction to a
\* later sale date
RescheduleAuction(auctionNo, saleDate) ==
    /\ auctionNo \in DOMAIN auctionBaseInfo
    /\ auctionBaseInfo[auctionNo].sale_date # NULL
    /\ saleDate > auctionBaseInfo[auctionNo].sale_date
    /\ auctionBaseInfo' = [auctionBaseInfo EXCEPT ![auctionNo].sale_date = saleDate]
    /\ last' = [NoCall EXCEPT !.op = "reschedule", !.auctionNo = auctionNo,
                              !.saleDate = saleDate]
    /\ UNCHANGED <<mockBidTable, auctionResult, mockBid, user, pointTransaction,
                   mockBidPointsRefundOnCancel, mockBidXpGrantOnCancel, today,
                   inflight, nCalls>>

\* auction 1 is open with no minimum, auction 2 has a minimum bid price
InitialCatalog ==
    (1 :> [sale_date |-> 0, status |-> NullStr, min_bid_price |-> NULL])
      @@ (2 :> [sale_date |-> 1, status |-> Jinhaeng, min_bid_price |-> 110])

InitialUsers ==
    (1 :> [points |-> 100, experiencePoints |-> 0])
      @@ (2 :> [points |-> 60, experiencePoints |-> 0])
      @@ (3 :> [points |-> 40, experiencePoints |-> 0])

Init ==
    /\ auctionBaseInfo = InitialCatalog
    /\ auctionResult = <<>>
    /\ mockBid = <<>>
    /\ user = InitialUsers
    /\ pointTransaction = <<>>
    /\ mockBidPointsRefundOnCancel = 30
    /\ mockBidXpGrantOnCancel = 50
    /\ today = 0
    /\ inflight = <<>>
    /\ nCalls = 0
    /\ mockBidTable = <<>>
    /\ last = NoCall

\* a submitBid request
SubmitBid(u, a, d, b) ==
    /\ nCalls < MaxCalls
    /\ CreateMockBid(u, a, d, b)

\* a submitAuctionOutcome request handled before any other request arrives
SubmitAuctionOutcome(dto, fault) ==
    /\ nCalls < MaxCalls
    /\ UpdateAuctionResult(dto, fault)

\* a submitAuctionOutcome request whose handler interleaves with others
ReceiveAuctionOutcome(dto) ==
    /\ nCalls < MaxCalls
    /\ BeginUpdateAuctionResult(dto)

\* ---- Spec: the life of one auction, requests served one at a time
Dtos ==
    [auction_no : {1}, sale_date : Dates \cup {NULL, InvalidDate},
     sale_price : {NULL, 100}, auction_outcome : {Maegak, Chwiso, Yuchal, NullStr}]

Next ==
    \/ \E u \in {1, 2}, d \in Dates \cup {InvalidDate}, b \in {100, 111} :
          SubmitBid(u, 1, d, b)
    \/ \E dto \in Dtos : SubmitAuctionOutcome(dto, "none")
    \/ Tick
    \/ RescheduleAuction(1, MaxDate)

Spec == Init /\ [][Next]_vars

\* ---- SpecReceiver: bids and outcomes of one auction on every sale date
ReceiverDtos ==
    [auction_no : {1}, sale_date : Dates, sale_price : {NULL, 100},
     auction_outcome : {Maegak, Chwiso}]

NextReceiver ==
    \/ \E u \in {1, 2}, d \in Dates, b \in {100, 110} : SubmitBid(u, 1, d, b)
    \/ \E dto \in ReceiverDtos : SubmitAuctionOutcome(dto, "none")
    \/ RescheduleAuction(1, MaxDate)

SpecReceiver == Init /\ [][NextReceiver]_vars

\* ---- SpecRank: the ranking policy on the bids of three users
RankDtos ==
    [auction_no : {1}, sale_date : {0}, sale_price : SalePrices,
     auction_outcome : {Maegak, Nakchal}]

NextRank ==
    \/ \E u \in Users, b \in BidAmounts : SubmitBid(u, 1, 0, b)
    \/ \E dto \in RankDtos, f \in Faults : SubmitAuctionOutcome(dto, f)

SpecRank == Init /\ [][NextRank]_vars

\* ---- SpecDispatch: every outcome label, on two auctions
DispatchDtos ==
    [auction_no : Auctions, sale_date : {0, NULL}, sale_price : {NULL, 100},
     auction_outcome : Outcomes]

NextDispatch ==
    \/ \E u \in {1, 2} : SubmitBid(u, 1, 0, 110)
    \/ \E dto \in DispatchDtos, f \in {"none", "query"} : SubmitAuctionOutcome(dto, f)

SpecDispatch == Init /\ [][NextDispatch]_vars

\* ---- SpecConc: outcome handlers that interleave at their awaits
ConcDtos ==
    [auction_no : {1}, sale_date : {0, MaxDate, NULL}, sale_price : {NULL, 100},
     auction_outcome : {Maegak, Chwiso}]

NextConc ==
    \/ \E b \in {100, 110} : SubmitBid(1, 1, 0, b)
    \/ \E dto \in ConcDtos : ReceiveAuctionOutcome(dto)
    \/ \E k \in DOMAIN inflight : ReadExistingResult(k)
    \/ \E k \in DOMAIN inflight : WriteResult(k)
    \/ \E k \in DOMAIN inflight : QueryBids(k)
    \/ \E k \in DOMAIN inflight : SettleBids(k)

SpecConc == Init /\ [][NextConc]_vars

\* ---- SpecPool: one auction whose bids were all placed, then its outcome.
\* The first numberOfWinners bidders bid the sale price, the others 10% more.
PoolBids(totalParticipants, numberOfWinners) ==
    [id \in { <<u, 1, 0>> : u \in 1..totalParticipants } |->
       CreatedRow(IF IdUser(id) <= numberOfWinners THEN 100 ELSE 110)]

InitPool ==
    /\ \E T \in 1..MaxParticipants : \E W \in 1..T : mockBid = PoolBids(T, W)
    /\ user = [u \in 1..MaxParticipants |-> [points |-> 70, experiencePoints |-> 0]]
    /\ auctionBaseInfo = InitialCatalog
    /\ auctionResult = <<>>
    /\ pointTransaction = <<>>
    /\ mockBidPointsRefundOnCancel = 30
    /\ mockBidXpGrantOnCancel = 50
    /\ today = 0
    /\ inflight = <<>>
    /\ nCalls = 0
    /\ mockBidTable = <<>>
    /\ last = NoCall

NextPool == \E dto \in RankDtos : SubmitAuctionOutcome(dto, "none")

SpecPool == InitPool /\ [][NextPool]_vars

\* ---- SpecFault: sold, cancelled and unsold outcomes whose settlement may
\* fail
FaultDtos ==
    [auction_no : {1}, sale_date : {0}, sale_price : {100},
     auction_outcome : {Maegak, Chwiso, Yuchal}]

NextFault ==
    \/ \E u \in Users, b \in BidAmounts : SubmitBid(u, 1, 0, b)
    \/ \E dto \in FaultDtos, f \in Faults : SubmitAuctionOutcome(dto, f)

SpecFault == Init /\ [][NextFault]_vars

\* ---- SpecScope: bids on two auctions and several sale dates, and the
\* cancelled, unsold and unknown outcomes of one auction
ScopeDtos ==
    [auction_no : {1}, sale_date : Dates, sale_price : {NULL},
     auction_outcome : {Chwiso, Yuchal, NullStr}]

NextScope ==
    \/ \E u \in {1, 2}, a \in Auctions, d \in Dates : SubmitBid(u, a, d, 110)
    \/ \E dto \in ScopeDtos : SubmitAuctionOutcome(dto, "none")
    \/ RescheduleAuction(1, MaxDate)

SpecScope == Init /\ [][NextScope]_vars

\* ---- SpecUnique: createMockBid, one awaited database operation per step,
\* on the MockBid table with its unique index; requests of the same user
\* interleave at every await
\* the positions of the rows with one (userId, auctionNo, auction_sale_date)
RowsOfKey(table, userId, auctionNo, saleDate) ==
    {i \in 1..Len(table) : /\ table[i].userId = userId
                           /\ table[i].auctionNo = auctionNo
                           /\ table[i].auction_sale_date = saleDate}

\* a table that has no unique index; C18 does not hold of it
UniqueIndexAbsent(table, row) == FALSE

\* MockBid_userId_auctionNo_auction_sale_date_key: the insert of row is
\* refused (P2002)
UniqueIndexViolated(table, row) ==
    RowsOfKey(table, row.userId, row.auctionNo, row.auction_sale_date) # {}

\* data of tx.mockBid.create
TableRow(dto) ==
    [userId |-> dto.userId, auctionNo |-> dto.auctionNo,
     auction_sale_date |-> dto.saleDate] @@ CreatedRow(dto.bidAmount)

BidCall(dto) ==
    [NoCall EXCEPT !.op = "createMockBid", !.userId = dto.userId,
                   !.auctionNo = dto.auctionNo, !.saleDate = dto.saleDate,
                   !.bidAmount = dto.bidAmount]

\* the request arrives: the checks that precede the transaction, then the
\* transaction begins and issues findUnique
BeginCreateMockBid(dto) ==
    LET check == CreateMockBidValidation(dto.auctionNo, dto.saleDate, dto.bidAmount,
                                         auctionBaseInfo, today)
    IN
    /\ nCalls < MaxCalls
    /\ nCalls' = nCalls + 1
    /\ IF check # "ok"
       THEN /\ last' = Rejected("createMockBid", check)
            /\ UNCHANGED inflight
       ELSE /\ Cardinality(DOMAIN inflight) < MaxInFlight
            /\ inflight' = (FreeSlot :> [dto |-> dto, pc |-> "findUnique",
                                         currentPoints |-> NULL]) @@ inflight
            /\ last' = [BidCall(dto) EXCEPT !.ret = "pending"]
    /\ UNCHANGED <<auctionBaseInfo, auctionResult, mockBid, user, pointTransaction,
                   mockBidPointsRefundOnCancel, mockBidXpGrantOnCancel, today,
                   mockBidTable>>

\* tx.mockBid.findUnique resolved: if (existingMockBid)
FindExistingMockBid(k) ==
    LET dto == inflight[k].dto
        existingMockBid == RowsOfKey(mockBidTable, dto.userId, dto.auctionNo, dto.saleDate)
    IN
    /\ inflight[k].pc = "findUnique"
    /\ inflight' = [inflight EXCEPT
                      ![k].pc = IF existingMockBid # {} THEN "update" ELSE "findUser"]
    /\ last' = [BidCall(dto) EXCEPT !.ret = "pending"]
    /\ UNCHANGED <<auctionBaseInfo, auctionResult, mockBid, user, pointTransaction,
                   mockBidPointsRefundOnCancel, mockBidXpGrantOnCancel, today,
                   nCalls, mockBidTable>>

\* tx.mockBid.update where the unique key, and the commit
UpdateMockBid(k) ==
    LET dto == inflight[k].dto
        rows == RowsOfKey(mockBidTable, dto.userId, dto.auctionNo, dto.saleDate)
    IN
    /\ inflight[k].pc = "update"
    /\ mockBidTable' = [i \in 1..Len(mockBidTable) |->
                          IF i \in rows
                          THEN ResubmittedRow(mockBidTable[i], dto.bidAmount)
                          ELSE mockBidTable[i]]
    /\ inflight' = Remove(inflight, k)
    /\ last' = [BidCall(dto) EXCEPT !.ret = "updated", !.committed = TRUE]
    /\ UNCHANGED <<auctionBaseInfo, auctionResult, mockBid, user, pointTransaction,
                   mockBidPointsRefundOnCancel, mockBidXpGrantOnCancel, today,
                   nCalls>>

\* tx.user.findUnique resolved: the balance check
ReadUserPoints(k) ==
    LET dto == inflight[k].dto
        currentPoints == user[dto.userId].points
    IN
    /\ inflight[k].pc = "findUser"
    /\ IF InsufficientPoints(currentPoints)
       THEN /\ inflight' = Remove(inflight, k)
            /\ last' = Rejected("createMockBid", "InternalServerError")
       ELSE /\ inflight' = [inflight EXCEPT ![k].pc = "create",
                                            ![k].currentPoints = currentPoints]
            /\ last' = [BidCall(dto) EXCEPT !.ret = "pending"]
    /\ UNCHANGED <<auctionBaseInfo, auctionResult, mockBid, user, pointTransaction,
                   mockBidPointsRefundOnCancel, mockBidXpGrantOnCancel, today,
                   nCalls, mockBidTable>>

\* tx.user.update, tx.mockBid.create and the commit.  user.update holds the
\* lock of the user's row until the transaction ends, so no step of another
\* transaction of the same user falls between them; a refused insert rolls
\* the user.update back and surfaces as a ConflictException
CreateMockBidRow(k) ==
    LET dto == inflight[k].dto
        row == TableRow(dto)
    IN
    /\ inflight[k].pc = "create"
    /\ IF UniqueIndexViolated(mockBidTable, row)
       THEN /\ last' = Rejected("createMockBid", "Conflict")
            /\ UNCHANGED <<user, mockBidTable>>
       ELSE /\ user' = [user EXCEPT ![dto.userId].points =
                                       inflight[k].currentPoints - PointsToDeduct]
            /\ mockBidTable' = Append(mockBidTable, row)
            /\ last' = [BidCall(dto) EXCEPT !.ret = "created", !.committed = TRUE]
    /\ inflight' = Remove(inflight, k)
    /\ UNCHANGED <<auctionBaseInfo, auctionResult, mockBid, pointTransaction,
                   mockBidPointsRefundOnCancel, mockBidXpGrantOnCancel, today,
                   nCalls>>

BidDtos ==
    [userId : {3}, auctionNo : {1}, saleDate : {0, 1}, bidAmount : {100, 111}]

NextUnique ==
    \/ \E dto \in BidDtos : BeginCreateMockBid(dto)
    \/ \E k \in DOMAIN inflight : FindExistingMockBid(k)
    \/ \E k \in DOMAIN inflight : UpdateMockBid(k)
    \/ \E k \in DOMAIN inflight : ReadUserPoints(k)
    \/ \E k \in DOMAIN inflight : CreateMockBidRow(k)

SpecUnique == Init /\ [][NextUnique]_vars

\* ---- SpecEligibility: submissions for known and unknown auctions, on
\* every date, while the day passes, the auction is rescheduled and outcomes
\* change its status
EligibilityDtos ==
    [auction_no : {1}, sale_date : {0}, sale_price : {100},
     auction_outcome : {Maegak, Chwiso}]

NextEligibility ==
    \/ \E u \in {1, 3}, a \in {1, 2, 3}, d \in Dates \cup {InvalidDate}, b \in {100, 110} :
          SubmitBid(u, a, d, b)
    \/ \E dto \in EligibilityDtos : SubmitAuctionOutcome(dto, "none")
    \/ Tick
    \/ RescheduleAuction(1, MaxDate)

SpecEligibility == Init /\ [][NextEligibility]_vars

\* ---- SpecInput: outcomes for a known and an unknown auction, with a sale
\* date that is valid, missing, or a string that new Date cannot parse
InputDtos ==
    [auction_no : {1, 3}, sale_date : {0, NULL, InvalidDate}, sale_price : {100},
     auction_outcome : {Maegak, Chwiso}]

NextInput ==
    \/ \E u \in {1, 2}, b \in {100, 110} : SubmitBid(u, 1, 0, b)
    \/ \E dto \in InputDtos : SubmitAuctionOutcome(dto, "none")

SpecInput == Init /\ [][NextInput]_vars

\* ---- SpecRetry: bids are placed, then the outcome of the sale date is
\* submitted again and again; the write phase of the settlement may fail,
\* and a submission whose settlement does not fail keeps being possible
RetryDtos ==
    [auction_no : {1}, sale_date : {0}, sale_price : {100},
     auction_outcome : {Maegak, Chwiso}]

\* a bid placed before the outcome of the sale date is known
PlaceBid(u, b) ==
    /\ auctionResult = <<>>
    /\ nCalls < MaxCalls - 2
    /\ SubmitBid(u, 1, 0, b)

\* an outcome submission during which the settlement's transaction fails
FailingOutcome(dto) ==
    /\ nCalls < MaxCalls - 1
    /\ UpdateAuctionResult(dto, "settle")

\* a submission of the payload that is stored (or of a first payload),
\* while the store works
ReplayOutcome(dto) ==
    /\ dto.auction_no \in DOMAIN auctionResult
         => auctionResult[dto.auction_no] = PrepareDatabaseData(dto, dto.sale_date)
    /\ SubmitAuctionOutcome(dto, "none")

NextRetry ==
    \/ \E u \in {1, 2}, b \in {100, 111} : PlaceBid(u, b)
    \/ \E dto \in RetryDtos : FailingOutcome(dto)
    \/ \E dto \in RetryDtos : ReplayOutcome(dto)

\* replays keep occurring and the store eventually stops failing
SpecRetry ==
    Init /\ [][NextRetry]_vars /\ WF_vars(\E dto \in RetryDtos : ReplayOutcome(dto))

\* ---- SpecSold: bids on two auctions and on several sale dates of
\* auction 1, which is rescheduled, and sold outcomes of auction 1
SoldDtos ==
    [auction_no : {1}, sale_date : {0, MaxDate}, sale_price : {100},
     auction_outcome : {Maegak, Nakchal}]

NextSold ==
    \/ \E u \in {1, 2}, a \in Auctions, d \in Dates : SubmitBid(u, a, d, 110)
    \/ \E dto \in SoldDtos : SubmitAuctionOutcome(dto, "none")
    \/ RescheduleAuction(1, MaxDate)

SpecSold == Init /\ [][NextSold]_vars

\* ---- SpecOverlap: bids placed before any outcome, then outcome handlers
\* of the auction that interleave at their awaits
OverlapDtos ==
    [auction_no : {1}, sale_date : {0}, sale_price : {100},
     auction_outcome : {Maegak, Chwiso}]

NextOverlap ==
    \/ \E u \in {1, 2}, b \in {100, 111} : PlaceBid(u, b)
    \/ \E dto \in OverlapDtos : ReceiveAuctionOutcome(dto)
    \/ \E k \in DOMAIN inflight : ReadExistingResult(k)
    \/ \E k \in DOMAIN inflight : WriteResult(k)
    \/ \E k \in DOMAIN inflight : QueryBids(k)
    \/ \E k \in DOMAIN inflight : SettleBids(k)

SpecOverlap == Init /\ [][NextOverlap]_vars

\* ---- SpecConfig: the service constructed under several values of
\* MOCK_BID_CREATION_POINTS_DEDUCTION, then bids and outcomes of one auction
RefundConfigs == {20, 30, 40}

InitConfig ==
    /\ mockBidPointsRefundOnCancel \in RefundConfigs
    /\ auctionBaseInfo = InitialCatalog
    /\ auctionResult = <<>>
    /\ mockBid = <<>>
    /\ user = InitialUsers
    /\ pointTransaction = <<>>
    /\ mockBidXpGrantOnCancel = 50
    /\ today = 0
    /\ inflight = <<>>
    /\ nCalls = 0
    /\ mockBidTable = <<>>
    /\ last = NoCall

ConfigDtos ==
    [auction_no : {1}, sale_date : {0}, sale_price : {100},
     auction_outcome : {Maegak, Chwiso}]

NextConfig ==
    \/ \E u \in {1, 2}, b \in {100, 110} : SubmitBid(u, 1, 0, b)
    \/ \E dto \in ConfigDtos : SubmitAuctionOutcome(dto, "none")

SpecConfig == InitConfig /\ [][NextConfig]_vars

\* ---- SpecBalance: submissions of one user on two auctions whose
\* transactions interleave at their awaits
BalanceDtos ==
    [userId : {1}, auctionNo : Auctions, saleDate : {0, 1}, bidAmount : {110}]

NextBalance ==
    \/ \E dto \in BalanceDtos : BeginCreateMockBid(dto)
    \/ \E k \in DOMAIN inflight : FindExistingMockBid(k)
    \/ \E k \in DOMAIN inflight : UpdateMockBid(k)
    \/ \E k \in DOMAIN inflight : ReadUserPoints(k)
    \/ \E k \in DOMAIN inflight : CreateMockBidRow(k)

SpecBalance == Init /\ [][NextBalance]_vars

\* ---- createMockBid on the keyed store, at the awaits that separate what
\* its transaction reads from what it writes.  The request arrives, the
\* checks run, mockBid.findUnique and user.findUnique return
ReadForCreateMockBid(dto) ==
    LET check == CreateMockBidValidation(dto.auctionNo, dto.saleDate, dto.bidAmount,
                                         auctionBaseInfo, today)
        id == <<dto.userId, dto.auctionNo, dto.saleDate>>
    IN
    /\ nCalls < MaxCalls
    /\ nCalls' = nCalls + 1
    /\ IF check # "ok"
       THEN /\ last' = Rejected("createMockBid", check)
            /\ UNCHANGED inflight
       ELSE IF ExistingMockBid(id, mockBid)
       THEN /\ Cardinality(DOMAIN inflight) < MaxInFlight
            /\ inflight' = (FreeSlot :> [dto |-> dto, pc |-> "mockBid.update",
                                         currentPoints |-> NULL]) @@ inflight
            /\ last' = [BidCall(dto) EXCEPT !.ret = "pending"]
       ELSE IF InsufficientPoints(user[dto.userId].points)
       THEN /\ last' = Rejected("createMockBid", "InternalServerError")
            /\ UNCHANGED inflight
       ELSE /\ Cardinality(DOMAIN inflight) < MaxInFlight
            /\ inflight' = (FreeSlot :> [dto |-> dto, pc |-> "mockBid.create",
                                         currentPoints |-> user[dto.userId].points])
                             @@ inflight
            /\ last' = [BidCall(dto) EXCEPT !.ret = "pending"]
    /\ UNCHANGED <<auctionBaseInfo, auctionResult, mockBid, user, pointTransaction,
                   mockBidPointsRefundOnCancel, mockBidXpGrantOnCancel, today,
                   mockBidTable>>

\* tx.mockBid.update, or tx.user.update and tx.mockBid.create, and the
\* commit; an insert of a key that another transaction created since the
\* read is refused (P2002) and the transaction rolls back
WriteForCreateMockBid(k) ==
    LET dto == inflight[k].dto
        id == <<dto.userId, dto.auctionNo, dto.saleDate>>
    IN
    /\ inflight[k].pc \in {"mockBid.update", "mockBid.create"}
    /\ IF inflight[k].pc = "mockBid.update"
       THEN /\ mockBid' = (id :> ResubmittedRow(mockBid[id], dto.bidAmount)) @@ mockBid
            /\ last' = [BidCall(dto) EXCEPT !.ret = "updated", !.committed = TRUE]
            /\ UNCHANGED user
       ELSE IF ExistingMockBid(id, mockBid)
       THEN /\ last' = Rejected("createMockBid", "Conflict")
            /\ UNCHANGED <<mockBid, user>>
       ELSE /\ user' = [user EXCEPT ![dto.userId].points =
                                       inflight[k].currentPoints - PointsToDeduct]
            /\ mockBid' = (id :> CreatedRow(dto.bidAmount)) @@ mockBid
            /\ last' = [BidCall(dto) EXCEPT !.ret = "created", !.committed = TRUE]
    /\ inflight' = Remove(inflight, k)
    /\ UNCHANGED <<auctionBaseInfo, auctionResult, pointTransaction,
                   mockBidPointsRefundOnCancel, mockBidXpGrantOnCancel, today,
                   nCalls, mockBidTable>>

\* ---- SpecInterleave: submissions of one user with a low balance and
\* outcomes of the auction, all interleaving at their awaits
InterleaveBidDtos ==
    [userId : {3}, auctionNo : {1}, saleDate : {0, 1}, bidAmount : {100, 111}]

InterleaveDtos ==
    [auction_no : {1}, sale_date : {0}, sale_price : {100},
     auction_outcome : {Maegak, Chwiso}]

NextInterleave ==
    \/ \E dto \in InterleaveBidDtos : ReadForCreateMockBid(dto)
    \/ \E k \in DOMAIN inflight : WriteForCreateMockBid(k)
    \/ \E dto \in InterleaveDtos : ReceiveAuctionOutcome(dto)
    \/ \E k \in DOMAIN inflight : ReadExistingResult(k)
    \/ \E k \in DOMAIN inflight : WriteResult(k)
    \/ \E k \in DOMAIN inflight : QueryBids(k)
    \/ \E k \in DOMAIN inflight : SettleBids(k)

SpecInterleave == Init /\ [][NextInterleave]_vars

\* ------------------------------------------------------------- properties
\* the step is a submitAuctionOutcome call that stored its payload and whose
\* settlement ran to completion
SettledCall(call) ==
    /\ call.op = "updateAuctionResult"
    /\ call.ret = "stored"
    /\ call.fault = "none"

\* the step is an updateAuctionResult call with the payload of the previous one
IdenticalPayload(call, previous) ==
    /\ call.auctionNo = previous.auctionNo
    /\ call.saleDate = previous.saleDate
    /\ call.outcome = previous.outcome
    /\ call.salePrice = previous.salePrice

\* C1: once an outcome has been accepted and settled, submitting the
\* identical payload again changes isProcessed, rank and
\* earnedExperiencePoints of no processed bid and changes no user balance.
C1_ReplayChangesNothing ==
    [][(SettledCall(last) /\ SettledCall(last') /\ IdenticalPayload(last', last))
         => /\ \A id \in DOMAIN mockBid :
                 mockBid[id].isProcessed
                   => /\ mockBid'[id].isProcessed
                      /\ mockBid'[id].rank = mockBid[id].rank
                      /\ mockBid'[id].earnedExperiencePoints
                           = mockBid[id].earnedExperiencePoints
            /\ user' = user]_vars

\* C1, the classes for which the replay is harmless: a replayed cancellation,
\* suspension, failed sale or unknown label changes no bid and no balance
C1_ReplayOfOtherClasses ==
    [][(SettledCall(last) /\ SettledCall(last') /\ IdenticalPayload(last', last)
          /\ last'.policy # "processAuctionRankings")
         => UNCHANGED <<mockBid, user, pointTransaction>>]_vars

\* a winner that a replay of the sold outcome has demoted to rank -1
C1_DemotedWinner ==
    /\ SettledCall(last)
    /\ last.policy = "processAuctionRankings"
    /\ \E id \in DOMAIN mockBid :
          /\ mockBid[id].credits = 1
          /\ mockBid[id].earnedExperiencePoints > 0
          /\ mockBid[id].rank = -1

\* a replayed cancellation after a settled one: nothing was paid twice
C1_ReplayedCancellation ==
    /\ SettledCall(last)
    /\ last.policy = "processCancellationOrSuspensionOutcomes"
    /\ last.fetched = {}
    /\ \E id \in DOMAIN mockBid :
          /\ IdAuction(id) = last.auctionNo
          /\ IdSaleDate(id) = last.saleDate
          /\ mockBid[id].credits = 1

\* C2: the user of a MockBid row is credited for that row (winner reward or
\* cancellation refund) at most once, whatever bids and outcomes are
\* submitted.
C2_CreditedAtMostOnce ==
    \A id \in DOMAIN mockBid : mockBid[id].credits <= 1

\* a row whose user was refunded twice
C2_CreditedTwice ==
    \E id \in DOMAIN mockBid :
       /\ mockBid[id].credits = 2
       /\ user[IdUser(id)].points > InitialUsers[IdUser(id)].points

\* C3: a successful createMockBid deducts the entry fee of 30 points from
\* the bidder when it creates the row and deducts nothing when the row
\* exists; rows are never removed, so N calls for one key pay one fee.
C3_FeeOnlyOnCreation ==
    [][/\ DOMAIN mockBid \subseteq DOMAIN mockBid'
       /\ (last'.op = "createMockBid" /\ last'.committed)
            => LET id == <<last'.userId, last'.auctionNo, last'.saleDate>>
               IN IF id \in DOMAIN mockBid
                  THEN user' = user
                  ELSE user' = [user EXCEPT ![last'.userId].points = @ - 30]]_vars

\* a second successful submission for a key: one fee has been paid
C3_Resubmitted ==
    /\ last.op = "createMockBid"
    /\ last.ret = "updated"
    /\ user[last.userId].points = InitialUsers[last.userId].points - 30
    /\ ~mockBid[<<last.userId, last.auctionNo, last.saleDate>>].isProcessed

\* the incoming sale date is strictly earlier than the stored one
StaleSubmission(call, results) ==
    /\ call.op = "updateAuctionResult"
    /\ call.auctionNo \in DOMAIN results
    /\ call.saleDate \in Dates
    /\ results[call.auctionNo].sale_date > call.saleDate

\* C4: an outcome whose sale date is strictly earlier than the stored one is
\* answered with the stored outcome; the stored outcome, the catalog, every
\* bid and every balance stay as they are and no policy runs.
C4_StaleIsNoOp ==
    [][StaleSubmission(last', auctionResult)
         => /\ last'.ret = "stale"
            /\ last'.returned = auctionResult[last'.auctionNo]
            /\ last'.policy = "none"
            /\ UNCHANGED <<auctionResult, auctionBaseInfo, mockBid, user,
                           pointTransaction>>]_vars

\* a stale outcome arrived for a sale date that still has an open bid
C4_StaleRejected ==
    /\ last.ret = "stale"
    /\ last.saleDate < auctionResult[last.auctionNo].sale_date
    /\ last.returned = auctionResult[last.auctionNo]
    /\ \E id \in DOMAIN mockBid :
          /\ IdAuction(id) = last.auctionNo
          /\ IdSaleDate(id) = last.saleDate
          /\ ~mockBid[id].isProcessed

\* C5: the sale date of the stored outcome of an auction never decreases,
\* also when the handlers of several submissions interleave.
C5_SaleDateNeverRegresses ==
    [][\A a \in DOMAIN auctionResult :
          auctionResult'[a].sale_date >= auctionResult[a].sale_date]_vars

\* the classification table of the outcome labels
PolicyOfTable(outcome, price) ==
    CASE outcome \in {Maegak, Nakchal} /\ price # NULL -> "processAuctionRankings"
      [] outcome \in {Maegak, Nakchal} /\ price = NULL -> "processUnsoldOrOtherOutcomes"
      [] outcome \in {Chwiso, Jeongji} -> "processCancellationOrSuspensionOutcomes"
      [] OTHER -> "processUnsoldOrOtherOutcomes"

\* the open bids of an auction, and those of one sale day
OpenBids(a, bids) == { id \in DOMAIN bids : IdAuction(id) = a /\ ~bids[id].isProcessed }

OpenBidsOn(a, d, bids) ==
    { id \in OpenBids(a, bids) : ToDateString(IdSaleDate(id)) = ToDateString(d) }

\* the submission was accepted: it was neither refused nor stale
AcceptedCall(call) ==
    /\ call.op = "updateAuctionResult"
    /\ call.auctionNo # 0
    /\ call.ret # "stale"

\* what each policy, and no other, does to the open bids and the balances
EffectOfPolicy(policy, a, d) ==
    CASE policy = "processAuctionRankings" ->
           \A id \in OpenBids(a, mockBid) :
              /\ mockBid'[id].isProcessed
              /\ mockBid'[id].earnedExperiencePoints # mockBidXpGrantOnCancel
      [] policy = "processCancellationOrSuspensionOutcomes" ->
           /\ \A id \in OpenBidsOn(a, d, mockBid) :
                 /\ mockBid'[id].isProcessed
                 /\ mockBid'[id].rank = -1
                 /\ mockBid'[id].earnedExperiencePoints = mockBidXpGrantOnCancel
           /\ \A u \in DOMAIN user :
                 user'[u].points = user[u].points + mockBidPointsRefundOnCancel
                    * Cardinality({ id \in OpenBidsOn(a, d, mockBid) : IdUser(id) = u })
           /\ \A id \in DOMAIN mockBid \ OpenBidsOn(a, d, mockBid) :
                 mockBid'[id] = mockBid[id]
      [] OTHER ->
           /\ \A id \in OpenBidsOn(a, d, mockBid) :
                 /\ mockBid'[id].isProcessed
                 /\ mockBid'[id].rank = -1
                 /\ mockBid'[id].earnedExperiencePoints = 0
           /\ \A id \in DOMAIN mockBid \ OpenBidsOn(a, d, mockBid) :
                 mockBid'[id] = mockBid[id]
           /\ UNCHANGED <<user, pointTransaction>>

\* C6: an accepted submission runs the one policy the classification table
\* names for its label and price (ranking for sold/awarded with a price,
\* refund for cancelled/suspended, pass-through for everything else, null and
\* unknown labels included), and no label makes the call fail.
C6_DispatchFollowsTable ==
    [][AcceptedCall(last')
         => /\ last'.policy = PolicyOfTable(last'.outcome, last'.salePrice)
            /\ last'.fault = "none"
                 => /\ last'.ret = "stored"
                    /\ EffectOfPolicy(PolicyOfTable(last'.outcome, last'.salePrice),
                                      last'.auctionNo, last'.saleDate)]_vars

\* a null or unknown label was accepted and passed the open bids through
C6_UnknownLabelPassedThrough ==
    /\ AcceptedCall(last)
    /\ last.outcome \in {NullStr, Byeongyeong}
    /\ last.ret = "stored"
    /\ last.committed
    /\ last.policy = "processUnsoldOrOtherOutcomes"

\* the ranking policy has settled the batch it fetched
RankingSettled(call) ==
    /\ call.op = "updateAuctionResult"
    /\ call.policy = "processAuctionRankings"
    /\ call.committed

\* the eligibility band of a realized price
InBand(bidAmount, P) == P <= bidAmount /\ 10 * bidAmount <= 11 * P

BandOf(batch, P) == { b \in batch : InBand(b.bidAmount, P) }

LowestOf(batch, P) ==
    { b \in BandOf(batch, P) : \A e \in BandOf(batch, P) : b.bidAmount <= e.bidAmount }

\* C7: with realized price P a fetched bid is ranked iff P <= bidAmount and
\* 10 * bidAmount <= 11 * P; a fetched bid outside the band ends processed
\* with rank -1 and 0 experience, and a user whose fetched bids are all
\* outside the band keeps the balances.
C7_EligibilityBand ==
    [][RankingSettled(last')
         => /\ \A b \in last'.fetched :
                 mockBid'[b.id].rank >= 1 <=> InBand(b.bidAmount, last'.salePrice)
            /\ \A b \in last'.fetched \ BandOf(last'.fetched, last'.salePrice) :
                 /\ mockBid'[b.id].isProcessed
                 /\ mockBid'[b.id].rank = -1
                 /\ mockBid'[b.id].earnedExperiencePoints = 0
            /\ \A u \in DOMAIN user :
                 (\A b \in BandOf(last'.fetched, last'.salePrice) : b.userId # u)
                   => user'[u] = user[u]]_vars

\* a batch with a bid on the upper edge of the band and one just above it
C7_BandEdge ==
    /\ RankingSettled(last)
    /\ last.salePrice = 100
    /\ \E b \in last.fetched : b.bidAmount = 110 /\ mockBid[b.id].rank >= 1
    /\ \E b \in last.fetched :
          /\ b.bidAmount = 111
          /\ mockBid[b.id].rank = -1
          /\ mockBid[b.id].earnedExperiencePoints = 0
          /\ user[b.userId].points = b.userPoints

\* C8: the rank stored on an eligible bid is 1 plus the number of eligible
\* bids of the batch with a strictly smaller amount (competition ranking:
\* amounts [a, a, b] with a < b get ranks [1, 1, 3]).
C8_CompetitionRanking ==
    [][RankingSettled(last')
         => \A b \in BandOf(last'.fetched, last'.salePrice) :
               mockBid'[b.id].rank =
                 1 + Cardinality({ e \in BandOf(last'.fetched, last'.salePrice) :
                                     e.bidAmount < b.bidAmount })]_vars

\* three eligible bids [a, a, b] ranked [1, 1, 3]
C8_TieThenSkip ==
    /\ RankingSettled(last)
    /\ \E x, y, z \in last.fetched :
          /\ x.id # y.id
          /\ x.bidAmount = y.bidAmount
          /\ y.bidAmount < z.bidAmount
          /\ mockBid[x.id].rank = 1
          /\ mockBid[y.id].rank = 1
          /\ mockBid[z.id].rank = 3

\* C9: a bid wins iff it is eligible with the lowest eligible amount; only
\* users of winning bids are credited; an eligible bid that does not win
\* ends processed with 0 experience and a rank above 1.
C9_OnlyWinnersRewarded ==
    [][RankingSettled(last')
         => /\ \A b \in last'.fetched :
                 mockBid'[b.id].rank = 1 <=> b \in LowestOf(last'.fetched, last'.salePrice)
            /\ \A u \in DOMAIN user :
                 (\A b \in LowestOf(last'.fetched, last'.salePrice) : b.userId # u)
                   => user'[u] = user[u]
            /\ \A i \in (Len(pointTransaction) + 1)..Len(pointTransaction') :
                 \E b \in LowestOf(last'.fetched, last'.salePrice) :
                    pointTransaction'[i].relatedId = b.id
            /\ \A b \in BandOf(last'.fetched, last'.salePrice)
                          \ LowestOf(last'.fetched, last'.salePrice) :
                 /\ mockBid'[b.id].isProcessed
                 /\ mockBid'[b.id].earnedExperiencePoints = 0
                 /\ mockBid'[b.id].rank > 1]_vars

\* a batch with a rewarded winner and an eligible bid that did not win
C9_WinnerAndLoser ==
    /\ RankingSettled(last)
    /\ \E w, n \in last.fetched :
          /\ mockBid[w.id].rank = 1
          /\ user[w.userId].points > w.userPoints
          /\ mockBid[n.id].rank > 1
          /\ mockBid[n.id].earnedExperiencePoints = 0
          /\ user[n.userId] = [points |-> n.userPoints, experiencePoints |-> 0]

\* floor((c*W + (T - W)*c*0.8) / W), in tenths
PoolShare(T, W, c) == (10 * c * W + (T - W) * c * 8) \div (10 * W)

\* C10: with T participants, W >= 1 winners and entry fee c every winner is
\* credited floor((c*W + (T - W)*c*0.8) / W) points; T = 10, W = 2, c = 30
\* gives 126.
C10_PoolArithmetic ==
    [][(RankingSettled(last') /\ LowestOf(last'.fetched, last'.salePrice) # {})
         => LET winners == LowestOf(last'.fetched, last'.salePrice)
                T == Cardinality({ b.userId : b \in last'.fetched })
                share == PoolShare(T, Cardinality(winners), mockBidPointsRefundOnCancel)
            IN /\ \A u \in DOMAIN user :
                    user'[u].points = user[u].points
                       + share * Cardinality({ b \in winners : b.userId = u })
               /\ (T = 10 /\ Cardinality(winners) = 2) => share = 126]_vars

\* ten participants, two winners, each credited 126 points
C10_TenParticipantsTwoWinners ==
    /\ RankingSettled(last)
    /\ Cardinality({ b.userId : b \in last.fetched }) = 10
    /\ Cardinality({ b \in last.fetched : mockBid[b.id].rank = 1 }) = 2
    /\ \A b \in last.fetched :
          mockBid[b.id].rank = 1 => user[b.userId].points = b.userPoints + 126

\* round(T / W), a half rounded up
RoundedQuotient(T, W) == (2 * T + W) \div (2 * W)

\* C11: every winner of a sold batch is awarded the same experience,
\* round(T / W) with T the number of distinct users among the fetched bids
\* and W the number of winners, and the experience balance of a winner's
\* user grows by exactly that amount for each winning bid.
C11_ExperienceReward ==
    [][(RankingSettled(last') /\ LowestOf(last'.fetched, last'.salePrice) # {})
         => LET winners == LowestOf(last'.fetched, last'.salePrice)
                T == Cardinality({ b.userId : b \in last'.fetched })
                xp == RoundedQuotient(T, Cardinality(winners))
            IN /\ \A b \in winners : mockBid'[b.id].earnedExperiencePoints = xp
               /\ \A u \in DOMAIN user :
                    user'[u].experiencePoints = user[u].experiencePoints
                       + xp * Cardinality({ b \in winners : b.userId = u })]_vars

\* three participants and two winners: 3 / 2 is rounded up to 2
C11_HalfRoundedUp ==
    /\ RankingSettled(last)
    /\ Cardinality({ b.userId : b \in last.fetched }) = 3
    /\ Cardinality({ b \in last.fetched : mockBid[b.id].rank = 1 }) = 2
    /\ \A b \in last.fetched :
          mockBid[b.id].rank = 1
            => /\ mockBid[b.id].earnedExperiencePoints = 2
               /\ user[b.userId].experiencePoints = 2

\* C12: when a sold batch has fetched bids but none inside the band, every
\* fetched bid ends processed with rank -1 and 0 experience, no balance
\* changes and no ledger entry is written.
C12_NoEligibleBids ==
    [][(RankingSettled(last') /\ last'.fetched # {}
          /\ BandOf(last'.fetched, last'.salePrice) = {})
         => /\ \A b \in last'.fetched :
                 /\ mockBid'[b.id].isProcessed
                 /\ mockBid'[b.id].rank = -1
                 /\ mockBid'[b.id].earnedExperiencePoints = 0
            /\ UNCHANGED <<user, pointTransaction>>]_vars

\* two participants, both outside the band, settled without a payout
C12_AllOutsideBand ==
    /\ RankingSettled(last)
    /\ Cardinality({ b.userId : b \in last.fetched }) = 2
    /\ BandOf(last.fetched, last.salePrice) = {}
    /\ \A b \in last.fetched :
          /\ mockBid[b.id].isProcessed
          /\ mockBid[b.id].rank = -1
          /\ user[b.userId].points = b.userPoints
    /\ pointTransaction = <<>>

\* the write phase of a sold or cancelled settlement threw
SettlementFailed(call) ==
    /\ call.op = "updateAuctionResult"
    /\ call.fault = "settle"
    /\ call.policy \in {"processAuctionRankings",
                        "processCancellationOrSuspensionOutcomes"}

\* C13: when the transaction of a sold or cancelled settlement fails at any
\* of its steps, no bid is marked processed, no balance has changed and no
\* ledger entry exists for the batch: the tables are as before the batch;
\* the error is caught, so the call still returns the stored outcome.
C13_SettlementAllOrNothing ==
    [][SettlementFailed(last')
         => /\ UNCHANGED <<mockBid, user, pointTransaction>>
            /\ \A b \in last'.fetched : ~mockBid'[b.id].isProcessed
            /\ last'.ret = "stored"]_vars

\* a failed sold settlement of a batch with a winner and a loser, and a
\* failed cancellation of two bids: both batches are still open
C13_FailedBatchStillOpen ==
    /\ SettlementFailed(last)
    /\ Cardinality(last.fetched) >= 2
    /\ last.policy = "processAuctionRankings"
         => /\ LowestOf(last.fetched, last.salePrice) # {}
            /\ LowestOf(last.fetched, last.salePrice) # last.fetched
    /\ \A b \in last.fetched :
          /\ ~mockBid[b.id].isProcessed
          /\ mockBid[b.id].rank = NULL
          /\ user[b.userId].points = b.userPoints
    /\ pointTransaction = <<>>

\* the policy of the step committed its writes
PolicySettled(call, policy) ==
    /\ call.op = "updateAuctionResult"
    /\ call.policy = policy
    /\ call.committed

\* the open bids whose auction and sale date are those of the outcome
TargetedBids(a, d, bids) == { id \in OpenBids(a, bids) : IdSaleDate(id) = d }

\* C14: a cancelled or suspended outcome leaves every open bid of its
\* (auctionNo, saleDate) processed with rank -1 and the flat experience
\* (50), and credits the flat refund (30 points) and the flat experience to
\* the bid's user once for each bid it settles.
C14_CancellationRefund ==
    [][PolicySettled(last', "processCancellationOrSuspensionOutcomes")
         => /\ \A id \in TargetedBids(last'.auctionNo, last'.saleDate, mockBid) :
                 /\ mockBid'[id].isProcessed
                 /\ mockBid'[id].rank = -1
                 /\ mockBid'[id].earnedExperiencePoints = mockBidXpGrantOnCancel
            /\ \A u \in DOMAIN user :
                 LET settled == { id \in DOMAIN mockBid :
                                    /\ IdUser(id) = u
                                    /\ ~mockBid[id].isProcessed
                                    /\ mockBid'[id].isProcessed }
                 IN /\ user'[u].points = user[u].points
                          + mockBidPointsRefundOnCancel * Cardinality(settled)
                    /\ user'[u].experiencePoints = user[u].experiencePoints
                          + mockBidXpGrantOnCancel * Cardinality(settled)]_vars

\* a cancelled bid: its user has the fee of 30 back and 50 experience
C14_Refunded ==
    /\ PolicySettled(last, "processCancellationOrSuspensionOutcomes")
    /\ \E b \in last.fetched :
          /\ IdSaleDate(b.id) = last.saleDate
          /\ mockBid[b.id].isProcessed
          /\ mockBid[b.id].rank = -1
          /\ mockBid[b.id].earnedExperiencePoints = 50
          /\ user[b.userId].points = b.userPoints + 30
          /\ user[b.userId].experiencePoints = 50

\* the step ran the refund or the pass-through policy to completion
DatedPolicySettled(call) ==
    /\ call.op = "updateAuctionResult"
    /\ call.ret = "stored"
    /\ call.fault = "none"
    /\ call.policy \in {"processCancellationOrSuspensionOutcomes",
                        "processUnsoldOrOtherOutcomes"}

\* C15, as stated: the refund and pass-through policies change only open
\* bids whose auction and sale date equal the outcome's; every other bid and
\* the balances of users without such a bid stay as they are.
C15_ScopedToSaleDate ==
    [][DatedPolicySettled(last')
         => LET targeted == TargetedBids(last'.auctionNo, last'.saleDate, mockBid)
            IN /\ \A id \in DOMAIN mockBid \ targeted : mockBid'[id] = mockBid[id]
               /\ \A u \in DOMAIN user :
                    (\A id \in targeted : IdUser(id) # u) => user'[u] = user[u]]_vars

\* C15, as the code has it: the refund and pass-through policies change only
\* open bids of the outcome's auction whose sale date falls on the calendar
\* day of the outcome's sale date; bids of another auction, of another day
\* or already processed, and the balances of users without a bid on that
\* day, stay as they are.
C15_ScopedToSaleDay ==
    [][DatedPolicySettled(last')
         => LET targeted == OpenBidsOn(last'.auctionNo, last'.saleDate, mockBid)
            IN /\ \A id \in DOMAIN mockBid \ targeted : mockBid'[id] = mockBid[id]
               /\ \A id \in targeted : mockBid'[id].isProcessed
               /\ \A u \in DOMAIN user :
                    (\A id \in targeted : IdUser(id) # u) => user'[u] = user[u]]_vars

\* a cancellation settled one bid and left open a bid of another day of the
\* auction and a bid of another auction
C15_OtherBidsLeftOpen ==
    /\ PolicySettled(last, "processCancellationOrSuspensionOutcomes")
    /\ \E id \in DOMAIN mockBid :
          /\ IdAuction(id) = last.auctionNo
          /\ ToDateString(IdSaleDate(id)) # ToDateString(last.saleDate)
          /\ ~mockBid[id].isProcessed
    /\ \E id \in DOMAIN mockBid :
          /\ IdAuction(id) # last.auctionNo
          /\ ~mockBid[id].isProcessed
          /\ user[IdUser(id)].experiencePoints = 0

\* a cancellation for one sale date refunded a bid placed for another time
\* of the same day
C15_SameDayBidSettled ==
    /\ PolicySettled(last, "processCancellationOrSuspensionOutcomes")
    /\ \E b \in last.fetched :
          /\ IdSaleDate(b.id) # last.saleDate
          /\ mockBid[b.id].isProcessed
          /\ user[b.userId].points = b.userPoints + 30

\* C16: an unsold or otherwise unclassified outcome leaves every open bid of
\* its (auctionNo, saleDate) processed with rank -1 and 0 experience,
\* changes no point or experience balance and writes no ledger entry.
C16_PassThrough ==
    [][(last'.op = "updateAuctionResult" /\ last'.ret = "stored"
          /\ last'.fault = "none" /\ last'.policy = "processUnsoldOrOtherOutcomes")
         => /\ \A id \in TargetedBids(last'.auctionNo, last'.saleDate, mockBid) :
                 /\ mockBid'[id].isProcessed
                 /\ mockBid'[id].rank = -1
                 /\ mockBid'[id].earnedExperiencePoints = 0
            /\ UNCHANGED <<user, pointTransaction>>]_vars

\* an unsold outcome passed two open bids through without paying anything
C16_TwoBidsPassedThrough ==
    /\ PolicySettled(last, "processUnsoldOrOtherOutcomes")
    /\ last.outcome = Yuchal
    /\ Cardinality({ b \in last.fetched : IdSaleDate(b.id) = last.saleDate }) = 2
    /\ \A b \in last.fetched :
          /\ mockBid[b.id].isProcessed
          /\ mockBid[b.id].rank = -1
          /\ mockBid[b.id].earnedExperiencePoints = 0
          /\ user[b.userId].points = b.userPoints
    /\ pointTransaction = <<>>

\* C17: in every reachable state a MockBid that is not processed has no
\* rank and no earned experience: after its creation, after a resubmission
\* and after any settlement, completed or failed.
C17_OpenBidHasNoResult ==
    \A id \in DOMAIN mockBid :
       ~mockBid[id].isProcessed
         => mockBid[id].rank = NULL /\ mockBid[id].earnedExperiencePoints = NULL

\* a row that was settled, then reopened by a resubmission
C17_ReopenedRow ==
    /\ last.op = "createMockBid"
    /\ last.ret = "updated"
    /\ LET id == <<last.userId, last.auctionNo, last.saleDate>>
       IN /\ mockBid[id].credits = 1
          /\ ~mockBid[id].isProcessed
          /\ mockBid[id].rank = NULL
          /\ mockBid[id].earnedExperiencePoints = NULL

\* C18: the MockBid table never holds two rows with the same (userId,
\* auctionNo, saleDate), whatever the interleaving of the submissions, and
\* a resubmission rewrites the row it found without adding a row.
C18_OneRowPerKey ==
    [][/\ \A i, j \in 1..Len(mockBidTable') :
             (/\ mockBidTable'[i].userId = mockBidTable'[j].userId
              /\ mockBidTable'[i].auctionNo = mockBidTable'[j].auctionNo
              /\ mockBidTable'[i].auction_sale_date = mockBidTable'[j].auction_sale_date)
               => i = j
       /\ (last'.op = "createMockBid" /\ last'.ret = "updated")
            => /\ Len(mockBidTable') = Len(mockBidTable)
               /\ Cardinality(RowsOfKey(mockBidTable', last'.userId, last'.auctionNo,
                                        last'.saleDate)) = 1]_vars

\* two first submissions of one key ran together: one created the row, the
\* other was refused by the index
C18_ConcurrentFirstSubmissions ==
    /\ last.op = "createMockBid"
    /\ last.ret = "Conflict"
    /\ Len(mockBidTable) = 1

\* C19: a first submission for a key by a user whose balance is below the
\* entry fee fails; it creates no row and leaves every balance as it was.
C19_InsufficientBalance ==
    [][\A u \in Users, a \in Auctions, d \in Dates, b \in BidAmounts :
          (/\ user[u].points < PointsToDeduct
           /\ <<u, a, d>> \notin DOMAIN mockBid
           /\ CreateMockBidValidation(a, d, b, auctionBaseInfo, today) = "ok"
           /\ SubmitBid(u, a, d, b))
            => /\ last'.op = "createMockBid"
               /\ last'.ret \notin {"created", "updated"}
               /\ <<u, a, d>> \notin DOMAIN mockBid'
               /\ UNCHANGED <<mockBid, user, pointTransaction>>]_vars

\* a submission was refused for want of points
C19_RefusedForBalance ==
    /\ last.op = "createMockBid"
    /\ last.ret = "InternalServerError"
    /\ \E u \in Users : user[u].points < PointsToDeduct

\* a submission that returned a row
BidAccepted(call) == call.op = "createMockBid" /\ call.ret \in {"created", "updated"}

\* C20, as stated: a submission is accepted only if the auction exists, its
\* catalog sale date equals the supplied saleDate, the saleDate is not
\* before today, the status is biddable and the amount reaches the minimum
\* bid price; a rejected submission changes no row and no balance.
C20_AcceptedOnlyIfSameDate ==
    [][last'.op = "createMockBid"
         => IF BidAccepted(last')
            THEN LET a == last'.auctionNo
                     d == last'.saleDate
                 IN /\ a \in DOMAIN auctionBaseInfo
                    /\ auctionBaseInfo[a].sale_date = d
                    /\ d >= today * SlotsPerDay
                    /\ auctionBaseInfo[a].status \notin NonBiddableStatus
                    /\ \/ auctionBaseInfo[a].min_bid_price = NULL
                       \/ last'.bidAmount >= auctionBaseInfo[a].min_bid_price
            ELSE UNCHANGED <<mockBid, user, pointTransaction>>]_vars

\* C20, amended: the same, with the catalog sale date and the supplied
\* saleDate falling on the same calendar day instead of being equal.
C20_AcceptedOnlyIfSameDay ==
    [][last'.op = "createMockBid"
         => IF BidAccepted(last')
            THEN LET a == last'.auctionNo
                     d == last'.saleDate
                 IN /\ a \in DOMAIN auctionBaseInfo
                    /\ auctionBaseInfo[a].sale_date # NULL
                    /\ ToDateString(auctionBaseInfo[a].sale_date) = ToDateString(d)
                    /\ d >= today * SlotsPerDay
                    /\ auctionBaseInfo[a].status \notin NonBiddableStatus
                    /\ \/ auctionBaseInfo[a].min_bid_price = NULL
                       \/ last'.bidAmount >= auctionBaseInfo[a].min_bid_price
            ELSE UNCHANGED <<mockBid, user, pointTransaction>>]_vars

\* an accepted submission whose saleDate is another time of the catalog
\* sale date's day
C20_AcceptedAtAnotherTime ==
    /\ BidAccepted(last)
    /\ auctionBaseInfo[last.auctionNo].sale_date # last.saleDate
    /\ <<last.userId, last.auctionNo, last.saleDate>> \in DOMAIN mockBid

\* C21: once the outcome write has committed, updateAuctionResult returns
\* the stored outcome whatever fails in the settlement that follows, for
\* every outcome class.
C21_SettlementFailureNotSurfaced ==
    [][(last'.op = "updateAuctionResult" /\ last'.fault # "none")
         => /\ last'.ret = "stored"
            /\ last'.returned = auctionResult'[last'.auctionNo]]_vars

\* the outcome was stored, the bid query of an awaited policy was rejected
\* and the caller got a server error
C21_QueryFailureSurfaced ==
    /\ last.op = "updateAuctionResult"
    /\ last.fault = "query"
    /\ last.policy # "processAuctionRankings"
    /\ last.ret = "InternalServerError"
    /\ last.auctionNo \in DOMAIN auctionResult
    /\ auctionResult[last.auctionNo] = last.returned

\* C21, the part that holds: a failure of the ranking, or of the write
\* phase of any policy, is not surfaced.
C21_CaughtFailuresNotSurfaced ==
    [][(/\ last'.op = "updateAuctionResult"
        /\ \/ last'.fault = "settle"
           \/ last'.fault = "query" /\ last'.policy = "processAuctionRankings")
         => last'.ret = "stored"]_vars

\* the settlement of request k has been started and has not finished
SettlementPending(k) == inflight[k].pc \in {"findMany", "write"}

\* C22: for every outcome class the caller is acknowledged without waiting
\* for the settlement: a request whose settlement is still running has
\* already returned its outcome to the caller.
C22_AcknowledgedBeforeSettlement ==
    \A k \in DOMAIN inflight :
       ("acknowledged" \in DOMAIN inflight[k] /\ SettlementPending(k))
         => inflight[k].acknowledged

\* the handler of a cancelled outcome has queried the bids, is about to
\* write the refunds, and its caller is still waiting
C22_CallerWaitsForRefunds ==
    \E k \in DOMAIN inflight :
       /\ inflight[k].pc = "write"
       /\ inflight[k].fetched # {}
       /\ inflight[k].dto.auction_outcome = Chwiso
       /\ ~inflight[k].acknowledged

\* C22, the part that holds: the caller of a sold outcome with a price is
\* acknowledged while the ranking is still running.
C22_RankingNotAwaited ==
    \A k \in DOMAIN inflight :
       (/\ SettlementPending(k)
        /\ PostResultPolicy(inflight[k].dto.auction_outcome, inflight[k].dto.sale_price)
             = "processAuctionRankings")
         => inflight[k].acknowledged

\* the tables the outcome handler and the settlement write
NothingStoredOrSettled == UNCHANGED <<auctionResult, auctionBaseInfo, mockBid, user, pointTransaction>>

\* C23: an outcome for an auction that is not in the catalog fails with
\* NotFound, stores no outcome and settles nothing.
C23_UnknownAuctionNotFound ==
    [][\A dto \in InputDtos :
          (/\ dto.auction_no \notin DOMAIN auctionBaseInfo
           /\ dto.sale_date # NULL
           /\ SubmitAuctionOutcome(dto, "none"))
            => /\ last'.ret = "NotFound"
               /\ NothingStoredOrSettled]_vars

\* C23, the part that holds: the outcome for an unknown auction is refused
\* (as a bad request), nothing is stored and nothing is settled.
C23_UnknownAuctionRefusedUnchanged ==
    [][\A dto \in InputDtos :
          (/\ dto.auction_no \notin DOMAIN auctionBaseInfo
           /\ SubmitAuctionOutcome(dto, "none"))
            => /\ last'.ret = "BadRequest"
               /\ NothingStoredOrSettled]_vars

C24_UnparseableDateStoresNothing ==
    [][\A dto \in InputDtos :
          (dto.sale_date = InvalidDate /\ SubmitAuctionOutcome(dto, "none"))
            => NothingStoredOrSettled]_vars

\* the winner reward of bid id has been paid: the ledger holds a reward
\* entry that names the bid
RewardPaid(id) ==
    \E i \in 1..Len(pointTransaction) :
       /\ pointTransaction[i].type = "MOCK_BID_WINNER_REWARD"
       /\ pointTransaction[i].relatedId = id

SettledAsWinner(id) == mockBid[id].isProcessed /\ mockBid[id].rank = 1

\* C25: in every state a bid is marked settled as winner exactly when its
\* reward has been paid for it.
C25_WinnerIffPaid ==
    \A id \in DOMAIN mockBid : SettledAsWinner(id) <=> RewardPaid(id)

\* the reward of a bid was paid and a resubmission then reopened the row
C25_PaidThenReopened ==
    /\ last.op = "createMockBid"
    /\ last.ret = "updated"
    /\ LET id == <<last.userId, last.auctionNo, last.saleDate>>
       IN /\ RewardPaid(id)
          /\ ~mockBid[id].isProcessed
          /\ mockBid[id].rank = NULL

\* C25, the part that holds: a bid marked settled as winner has been paid.
C25_WinnerIsPaid ==
    \A id \in DOMAIN mockBid : SettledAsWinner(id) => RewardPaid(id)

\* the sum of the amounts of user u's entries among the first n of a ledger
RECURSIVE LedgerSum(_, _, _)
LedgerSum(ledger, u, n) ==
    IF n = 0 THEN 0
    ELSE LedgerSum(ledger, u, n - 1)
           + (IF ledger[n].userId = u THEN ledger[n].amount ELSE 0)

\* C26: every change of a user's point balance made by a bid submission or
\* a settlement comes with one ledger entry for that delta, so the sum of
\* the user's ledger amounts equals the net change of the balance.
C26_LedgerMatchesBalance ==
    \A u \in DOMAIN user :
       LedgerSum(pointTransaction, u, Len(pointTransaction))
         = user[u].points - InitialUsers[u].points

\* a bid was created and its fee deducted with no ledger entry written
C26_FeeWithoutEntry ==
    /\ last.op = "createMockBid"
    /\ last.ret = "created"
    /\ user[last.userId].points < InitialUsers[last.userId].points
    /\ pointTransaction = <<>>

\* C26, the part that holds: the ranking writes one ledger entry per winner
\* reward; the ledger of a user grows by what the ranking adds to the
\* balance, and only the ranking appends to the ledger.
C26_RewardsAreLogged ==
    [][IF last'.op = "updateAuctionResult" /\ last'.policy = "processAuctionRankings"
       THEN \A u \in DOMAIN user :
               LedgerSum(pointTransaction', u, Len(pointTransaction'))
                 - LedgerSum(pointTransaction, u, Len(pointTransaction))
                   = user'[u].points - user[u].points
       ELSE UNCHANGED pointTransaction]_vars

\* C27: in every sold batch with a winner there are no more winners than
\* participants, and every winning bid brings its user at least the entry
\* fee, also when the batch holds bids for several sale dates.
C27_RefundFloor ==
    [][(RankingSettled(last') /\ LowestOf(last'.fetched, last'.salePrice) # {})
         => LET winners == LowestOf(last'.fetched, last'.salePrice)
                T == Cardinality({ b.userId : b \in last'.fetched })
            IN /\ Cardinality(winners) <= T
               /\ \A u \in DOMAIN user :
                     user'[u].points - user[u].points
                       >= mockBidPointsRefundOnCancel
                            * Cardinality({ b \in winners : b.userId = u })]_vars

\* one user won with two bids, for two sale dates, and was credited less
\* than the two entry fees
C27_MoreWinnersThanParticipants ==
    /\ RankingSettled(last)
    /\ \E u \in DOMAIN user :
          LET won == { b \in last.fetched : b.userId = u /\ mockBid[b.id].rank = 1 }
          IN /\ Cardinality(won) = 2
             /\ \A b \in won : user[u].points < b.userPoints + 2 * mockBidPointsRefundOnCancel

\* C27, the part that holds: the same, for batches in which every user has
\* one bid.
C27_RefundFloorOneBidPerUser ==
    [][(/\ RankingSettled(last')
        /\ LowestOf(last'.fetched, last'.salePrice) # {}
        /\ Cardinality(last'.fetched) = Cardinality({ b.userId : b \in last'.fetched }))
         => LET winners == LowestOf(last'.fetched, last'.salePrice)
            IN /\ Cardinality(winners) <= Cardinality(last'.fetched)
               /\ \A u \in DOMAIN user :
                     user'[u].points - user[u].points
                       >= mockBidPointsRefundOnCancel
                            * Cardinality({ b \in winners : b.userId = u })]_vars

\* bid id is processed and its user has been paid for it once if a payment
\* was due (a winner reward or a refund), never twice
ProcessedAndPaidOnce(id) ==
    /\ id \in DOMAIN mockBid
    /\ mockBid[id].isProcessed
    /\ mockBid[id].credits <= 1
    /\ mockBid[id].rank = 1 => mockBid[id].credits = 1
    /\ mockBid[id].earnedExperiencePoints = mockBidXpGrantOnCancel => mockBid[id].credits = 1

\* C28: when the transaction of a settlement fails, the batch stays open,
\* the replay of the same payload is accepted and settles it again; with
\* replays that keep coming and a store that stops failing, every bid of
\* the failed batch is eventually processed, and none is paid twice.  No
\* bid is placed once an outcome is stored, so the bids of the failed batch
\* are the bids of the table.
C28_RetryByReplay ==
    /\ [](\A id \in DOMAIN mockBid : mockBid[id].credits <= 1)
    /\ (SettlementFailed(last) /\ last.fetched # {})
         ~> (\A id \in DOMAIN mockBid : ProcessedAndPaidOnce(id))

\* the replay of the payload whose settlement had failed has settled the
\* batch: a winner is paid once
C28_ReplaySettledFailedBatch ==
    /\ SettledCall(last)
    /\ last.committed
    /\ nCalls = MaxCalls
    /\ Cardinality(last.fetched) = MaxCalls - 2
    /\ \E b \in last.fetched : mockBid[b.id].rank = 1 /\ mockBid[b.id].credits = 1
    /\ \A b \in last.fetched : mockBid[b.id].isProcessed

\* C29: the ranking fetches every open bid of the outcome's auction, on
\* whatever sale date; when it has fetched a bid and committed, the auction
\* has no open bid left and the bids of the other auctions are as before.
C29_SoldSettlesWholeAuction ==
    [][(RankingSettled(last') /\ last'.fetched # {})
         => LET a == last'.auctionNo
            IN /\ { b.id : b \in last'.fetched } = OpenBids(a, mockBid)
               /\ OpenBids(a, mockBid') = {}
               /\ DOMAIN mockBid' = DOMAIN mockBid
               /\ \A id \in DOMAIN mockBid :
                     IdAuction(id) # a => mockBid'[id] = mockBid[id]]_vars

\* a sold outcome settled bids of two calendar days of its auction and left
\* an open bid of the other auction alone
C29_TwoSaleDatesSettled ==
    /\ RankingSettled(last)
    /\ \E b1, b2 \in last.fetched :
          ToDateString(IdSaleDate(b1.id)) # ToDateString(IdSaleDate(b2.id))
    /\ \A b \in last.fetched : mockBid[b.id].isProcessed
    /\ \E id \in DOMAIN mockBid : IdAuction(id) # last.auctionNo /\ ~mockBid[id].isProcessed

\* batch k holds a snapshot with a bid that another batch has committed
\* since k's query returned
StaleSnapshot(k, batches, bids) ==
    /\ batches[k].pc = "write"
    /\ \E b \in batches[k].fetched : bids[b.id].isProcessed

\* k's bid query returns in this step
QueryReturns(k) ==
    /\ k \in DOMAIN inflight
    /\ inflight[k].pc = "findMany"
    /\ k \in DOMAIN inflight'
    /\ inflight'[k].pc = "write"

\* k's settlement commits in this step
BatchCommits(k) ==
    /\ k \in DOMAIN inflight
    /\ inflight[k].pc = "write"
    /\ k \notin DOMAIN inflight'

\* C30: with bids placed before the outcomes, a bid query that returns
\* after a batch has committed holds none of the bids that batch settled;
\* a snapshot turns stale only when another batch commits; and a bid's user
\* is credited a second time only by the commit of a batch whose snapshot
\* was stale, that is, whose query returned before the other batch
\* committed.  So two batches whose queries follow each other's commits
\* credit no bid twice.
C30_TwiceOnlyByOverlap ==
    [][/\ \A k \in 1..MaxInFlight :
             QueryReturns(k) => ~StaleSnapshot(k, inflight', mockBid')
       /\ \A k \in DOMAIN inflight \cap DOMAIN inflight' :
             (~StaleSnapshot(k, inflight, mockBid) /\ StaleSnapshot(k, inflight', mockBid'))
                => \E j \in DOMAIN inflight \ {k} : BatchCommits(j)
       /\ \A id \in DOMAIN mockBid :
             (mockBid[id].credits >= 1 /\ mockBid'[id].credits > mockBid[id].credits)
                => \E k \in DOMAIN inflight :
                      /\ BatchCommits(k)
                      /\ StaleSnapshot(k, inflight, mockBid)
                      /\ id \in { b.id : b \in inflight[k].fetched }
                      /\ mockBid[id].isProcessed]_vars

\* two batches read the same bid as unprocessed, both committed, and the
\* bid's user holds two credits for one fee
C30_CreditedByBothBatches ==
    /\ last.op = "updateAuctionResult"
    /\ last.committed
    /\ inflight = <<>>
    /\ \E b \in last.fetched :
          /\ mockBid[b.id].credits = 2
          /\ user[b.userId].points > InitialUsers[b.userId].points

\* C31: every ledger entry written by a committed ranking names a winning
\* bid of the batch and its balanceAfter is the user's balance right after
\* that credit: the balance before the transaction plus the entry's amount
\* once for every entry of the user up to this one.
C31_BalanceAfterIsActual ==
    [][RankingSettled(last')
         => LET n == Len(pointTransaction)
                new == (n + 1)..Len(pointTransaction')
            IN \A i \in new :
                  LET e == pointTransaction'[i]
                      upTo == { j \in new : j <= i /\ pointTransaction'[j].userId = e.userId }
                  IN /\ e.relatedId \in { b.id : b \in last'.fetched }
                     /\ mockBid'[e.relatedId].rank = 1
                     /\ e.balanceAfter = user[e.userId].points + Cardinality(upTo) * e.amount]_vars

\* the ledger holds two rewards of one user, for two bids of one batch, with
\* the same balanceAfter, which is not the user's balance
C31_TwoRewardsOneBalance ==
    /\ RankingSettled(last)
    /\ \E i, j \in 1..Len(pointTransaction) :
          /\ i < j
          /\ pointTransaction[i].userId = pointTransaction[j].userId
          /\ pointTransaction[i].relatedId # pointTransaction[j].relatedId
          /\ { pointTransaction[i].relatedId, pointTransaction[j].relatedId }
                \subseteq { b.id : b \in last.fetched }
          /\ pointTransaction[i].balanceAfter = pointTransaction[j].balanceAfter
          /\ pointTransaction[j].amount > 0
          /\ user[pointTransaction[j].userId].points # pointTransaction[j].balanceAfter

\* number of bids of user u in a fetched batch
FetchedOf(call, u) == Cardinality({ b \in call.fetched : b.userId = u })

\* C32: under every configuration a committed cancellation gives back to
\* each user the entry fee of each of the user's bids in the batch, so that
\* the bid has cost the user nothing.
C32_RefundIsTheFee ==
    [][PolicySettled(last', "processCancellationOrSuspensionOutcomes")
         => \A u \in DOMAIN user :
               user'[u].points = user[u].points + PointsToDeduct * FetchedOf(last', u)]_vars

\* the same under the configuration that ships as the default
C32_RefundIsTheFeeByDefault ==
    [][(mockBidPointsRefundOnCancel = PointsToDeduct
          /\ PolicySettled(last', "processCancellationOrSuspensionOutcomes"))
         => \A u \in DOMAIN user :
               user'[u].points = user[u].points + PointsToDeduct * FetchedOf(last', u)]_vars

\* a user who placed one bid, had it cancelled and holds fewer points than
\* before the bid
C32_RefundBelowFee ==
    /\ PolicySettled(last, "processCancellationOrSuspensionOutcomes")
    /\ mockBidPointsRefundOnCancel < PointsToDeduct
    /\ \E b \in last.fetched :
          /\ mockBid[b.id].credits = 1
          /\ FetchedOf(last, b.userId) = 1
          /\ Cardinality({ id \in DOMAIN mockBid : IdUser(id) = b.userId }) = 1
          /\ user[b.userId].points < InitialUsers[b.userId].points

\* an outcome is stored for the auction and sale date of the call
OutcomeStoredFor(call) ==
    /\ call.auctionNo \in DOMAIN auctionResult
    /\ auctionResult[call.auctionNo].sale_date = call.saleDate

\* C33: no submission is accepted for an auction and sale date whose outcome
\* is stored, whatever the outcome, and no submission turns a processed bid
\* back to unprocessed.
C33_ClosedByOutcome ==
    [][BidAccepted(last')
         => /\ ~OutcomeStoredFor(last')
            /\ \A id \in DOMAIN mockBid : mockBid[id].isProcessed => mockBid'[id].isProcessed]_vars

\* the part the status check does enforce: after a cancellation stored with
\* a sale price the catalog status is a non-biddable one and no submission
\* for the auction is accepted
C33_ClosedByPricedCancellation ==
    [][BidAccepted(last')
         => ~(/\ last'.auctionNo \in DOMAIN auctionResult
              /\ auctionResult[last'.auctionNo].auction_outcome = Chwiso
              /\ auctionResult[last'.auctionNo].sale_price # NULL)]_vars

\* a resubmission accepted after the sold outcome of its sale date was
\* stored, which reopened a settled bid
C33_ReopenedAfterSold ==
    /\ BidAccepted(last)
    /\ last.ret = "updated"
    /\ OutcomeStoredFor(last)
    /\ auctionResult[last.auctionNo].auction_outcome = Maegak
    /\ \E id \in DOMAIN mockBid :
          /\ IdAuction(id) = last.auctionNo
          /\ IdSaleDate(id) = last.saleDate
          /\ IdUser(id) = last.userId
          /\ ~mockBid[id].isProcessed
          /\ mockBid[id].credits >= 1

RECURSIVE TotalPoints(_, _)
\* the points held by the users of S together
TotalPoints(users, S) ==
    IF S = {}
    THEN 0
    ELSE LET u == CHOOSE x \in S : TRUE
         IN users[u].points + TotalPoints(users, S \ {u})

\* C34: a committed sold batch credits to its winners, all together, no
\* more than the entry fees charged for the bids it fetched.
C34_PlatformMargin ==
    [][RankingSettled(last')
         => TotalPoints(user', DOMAIN user) - TotalPoints(user, DOMAIN user)
               <= PointsToDeduct * Cardinality(last'.fetched)]_vars

\* the same under the configuration that ships as the default
C34_PlatformMarginByDefault ==
    [][(mockBidPointsRefundOnCancel = PointsToDeduct /\ RankingSettled(last'))
         => TotalPoints(user', DOMAIN user) - TotalPoints(user, DOMAIN user)
               <= PointsToDeduct * Cardinality(last'.fetched)]_vars

\* a batch of one bid whose winner was credited more than the fee paid
C34_PaidMoreThanCharged ==
    /\ RankingSettled(last)
    /\ Cardinality(last.fetched) = 1
    /\ \E b \in last.fetched :
          /\ mockBid[b.id].rank = 1
          /\ user[b.userId].points > b.userPoints + PointsToDeduct

\* rows of user u in the MockBid table
RowsOfUser(table, u) == { i \in 1..Len(table) : table[i].userId = u }

\* C35: when every submission has returned, each user holds the initial
\* balance less one entry fee for each MockBid row created for the user (no
\* settlement credit is applied in these behaviours).
C35_FeePerRow ==
    inflight = <<>>
      => \A u \in DOMAIN user :
            user[u].points = InitialUsers[u].points
                               - PointsToDeduct * Cardinality(RowsOfUser(mockBidTable, u))

\* the same for submissions whose transactions do not overlap: a balance
\* read while no other submission of the user stood between its read and its
\* write
C35_FeePerRowInTurn ==
    [][\A k \in DOMAIN inflight :
          (inflight[k].pc = "create" /\ k \notin DOMAIN inflight'
             /\ inflight[k].currentPoints = user[inflight[k].dto.userId].points
             /\ last'.ret = "created")
            => user'[inflight[k].dto.userId].points
                 = user[inflight[k].dto.userId].points - PointsToDeduct]_vars

\* two rows of one user on two auctions, created by submissions that both
\* read the balance before either wrote it, for one entry fee
C35_TwoRowsOneFee ==
    /\ inflight = <<>>
    /\ \E i, j \in RowsOfUser(mockBidTable, 1) :
          mockBidTable[i].auctionNo # mockBidTable[j].auctionNo
    /\ Len(mockBidTable) = 2
    /\ user[1].points = InitialUsers[1].points - PointsToDeduct

\* C36: no user's point balance is ever negative, whatever submissions and
\* outcome handlers interleave.
C36_NonNegativeBalance ==
    \A u \in DOMAIN user : user[u].points >= 0

\* two first submissions of a user who could pay one entry fee read the
\* balance together and were both accepted: two rows, and a balance that is
\* below the fee and not negative
C36_BalanceBelowFee ==
    /\ last.op = "createMockBid"
    /\ last.ret = "created"
    /\ user[last.userId].points < PointsToDeduct
    /\ InitialUsers[last.userId].points < 2 * PointsToDeduct
    /\ Cardinality({ id \in DOMAIN mockBid : IdUser(id) = last.userId }) = 2
    /\ \A id \in DOMAIN mockBid : mockBid[id].credits = 0

\* C37: every processed bid has a rank and an earned experience, in every
\* state, also when a bid is created while a sold batch that fetched
\* nothing stands before its bulk update.
C37_SettledFully ==
    \A id \in DOMAIN mockBid :
       mockBid[id].isProcessed
         => mockBid[id].rank # NULL /\ mockBid[id].earnedExperiencePoints # NULL

\* a bid created after the empty bid query of a sold batch and marked by the
\* batch's bulk update: processed, rank -1, no earned experience, never
\* ranked and never credited
C37_MarkedWithoutExperience ==
    /\ RankingSettled(last)
    /\ last.fetched = {}
    /\ \E id \in DOMAIN mockBid :
          /\ IdAuction(id) = last.auctionNo
          /\ mockBid[id].isProcessed
          /\ mockBid[id].rank = -1
          /\ mockBid[id].earnedExperiencePoints = NULL
          /\ mockBid[id].credits = 0

\* C38: when a sold batch with price P commits, every bid of the batch that
\* ends with a rank of 1 or more has its stored bidAmount inside the band of
\* P, and a bid that ends with rank 1 has the lowest stored bidAmount of the
\* batch's bids inside the band.
C38_RankMatchesStoredAmount ==
    [][RankingSettled(last')
         => LET P == last'.salePrice
                ids == { b.id : b \in last'.fetched }
                inBand == { id \in ids : InBand(mockBid'[id].bidAmount, P) }
            IN \A id \in ids :
                  /\ mockBid'[id].rank >= 1 => id \in inBand
                  /\ mockBid'[id].rank = 1
                       => \A e \in inBand : mockBid'[id].bidAmount <= mockBid'[e].bidAmount]_vars

\* a bid fetched with an amount inside the band and resubmitted with one
\* outside it before the batch committed: it is the winner, processed, with
\* a stored amount the band excludes
C38_WinnerOutsideBand ==
    /\ RankingSettled(last)
    /\ \E b \in last.fetched :
          /\ InBand(b.bidAmount, last.salePrice)
          /\ mockBid[b.id].isProcessed
          /\ mockBid[b.id].rank = 1
          /\ mockBid[b.id].bidAmount # b.bidAmount
          /\ ~InBand(mockBid[b.id].bidAmount, last.salePrice)

====
